---- MODULE Spec2Model ----
(***************************************************************************)
(* A model of the streaming core of polyio: the three-phase handshake      *)
(* (src/events/handshake.rs), the event stream that wraps the socket       *)
(* afterwards (src/events/stream.rs), and the normalization of the         *)
(* subscriptions a session is opened with (src/client.rs).                 *)
(***************************************************************************)
EXTENDS Integers, Sequences, FiniteSets, TLC

(***************************************************************************)
(* Bounds of the model.                                                    *)
(***************************************************************************)
MaxFrameLen == 2
MaxSubs == 2
MaxControl == 1
MaxStreamInputs == 2
MaxNormalizeLen == 3
MaxCalls == 2
MaxOutputLen == 3
MaxReadErrors == 1

(***************************************************************************)
(* Wire vocabulary.                                                        *)
(***************************************************************************)
\* The status codes `Code` deserializes.
Code == {"connected", "disconnected", "auth_success", "auth_failed", "success"}

\* The "ev" tags of the data variants of `Message` and `Event`.
DataTags == {"A", "AM", "T", "Q"}

\* Human messages carried by a status item.
Msgs == {"m1", "m2"}

\* Ping payloads.
Payloads == {"p1", "p2"}

\* The credential handed to the session.
API_KEY == "USER12345678"

\* One element of a frame's JSON array as the server wrote it.  "X" is an
\* "ev" tag and "bogus" a status code the client does not know.
WireItemsWith(msgs) ==
  [ev : DataTags \cup {"X"}, status : {"-"}, message : {"-"}] \cup
  [ev : {"status"}, status : Code \cup {"bogus"}, message : msgs]

SeqsUpTo(S, n) == UNION {[1..k -> S] : k \in 0..n}

\* The payload of a text or binary frame: a JSON array of items, or bytes
\* that are no JSON array at all.
FramesWith(msgs) ==
  [valid : {TRUE}, items : SeqsUpTo(WireItemsWith(msgs), MaxFrameLen)] \cup
  [valid : {FALSE}, items : {<<>>}]

\* The frames a handshake is tried on.
Frames == FramesWith(Msgs)

\* The frames an event stream is tried on; it never reads a status message.
StreamFrames == FramesWith({"m1"})

Stock == {"*", "MSFT", "SPY"}
Subscription == [kind : {"SecondAggregates", "MinuteAggregates", "Trades", "Quotes"},
                 stock : Stock]

\* The subscriptions sessions are opened with: those of the stream tests,
\* Trades(MSFT) and Quotes(*), in turn.
SessionSubs(n) ==
  [i \in 1..n |-> IF i % 2 = 1 THEN [kind |-> "Trades", stock |-> "MSFT"]
                              ELSE [kind |-> "Quotes", stock |-> "*"]]

(***************************************************************************)
(* Errors.                                                                 *)
(***************************************************************************)
NoError == [kind |-> "none", text |-> <<>>]
StrError(parts) == [kind |-> "Str", text |-> parts]
JsonError == [kind |-> "Json", text |-> <<>>]
WebSocketError(what) == [kind |-> "WebSocket", text |-> <<what>>]

ClosedUnexpectedly == StrError(<<"websocket connection closed unexpectedly">>)
NoSubscriptions ==
  WebSocketError("failed to subscribe to event stream: no subscriptions supplied")

(***************************************************************************)
(* Decoding of a frame into `Messages`: a serde enum tagged by "ev", with  *)
(* a status code enum inside.  An unknown tag or code fails the whole      *)
(* array.                                                                  *)
(***************************************************************************)
IsStatus(item) == item.ev = "status"
IsData(item) == item.ev \in DataTags

Message(item) ==
  \/ item.ev \in DataTags
  \/ item.ev = "status" /\ item.status \in Code

from_json(frame) ==
  IF frame.valid /\ \A i \in 1..Len(frame.items) : Message(frame.items[i])
  THEN [ok |-> TRUE, msgs |-> frame.items]
  ELSE [ok |-> FALSE, msgs |-> <<>>]

(***************************************************************************)
(* Subscription tokens and the subscribe request.                          *)
(***************************************************************************)
\* Display for Subscription naming minute aggregates like second aggregates.
Prefix_minute_as_second(kind) ==
  CASE kind = "SecondAggregates" -> "A"
    [] kind = "MinuteAggregates" -> "A"
    [] kind = "Trades" -> "T"
    [] kind = "Quotes" -> "Q"

Prefix(kind) ==
  CASE kind = "SecondAggregates" -> "A"
    [] kind = "MinuteAggregates" -> "AM"
    [] kind = "Trades" -> "T"
    [] kind = "Quotes" -> "Q"

\* Display for Subscription: prefix, '.', symbol or '*'.
to_string(sub) == <<Prefix(sub.kind), ".", sub.stock>>

Request(action, params) == [action |-> action, params |-> params]

\* The fold of make_subscribe_request over the subscriptions after the
\* first: append ',' and the token, count one more.
RECURSIVE fold(_, _, _)
fold(subscriptions, i, acc) ==
  IF i > Len(subscriptions) THEN acc
  ELSE fold(subscriptions, i + 1,
            [subs |-> acc.subs \o <<",">> \o to_string(subscriptions[i]), cnt |-> acc.cnt + 1])

\* make_subscribe_request building a request for no subscriptions at all.
make_subscribe_request_accepts_none(subscriptions) ==
  IF Len(subscriptions) = 0
  THEN [ok |-> TRUE, request |-> Request("subscribe", <<>>), count |-> 0, err |-> NoError]
  ELSE LET r == fold(subscriptions, 2, [subs |-> to_string(subscriptions[1]), cnt |-> 1])
       IN [ok |-> TRUE, request |-> Request("subscribe", r.subs), count |-> r.cnt,
           err |-> NoError]

\* make_subscribe_request with the count started at zero.
make_subscribe_request_miscount(subscriptions) ==
  IF Len(subscriptions) = 0
  THEN [ok |-> FALSE, request |-> Request("subscribe", <<>>), count |-> 0,
        err |-> NoSubscriptions]
  ELSE LET r == fold(subscriptions, 2, [subs |-> to_string(subscriptions[1]), cnt |-> 0])
       IN [ok |-> TRUE, request |-> Request("subscribe", r.subs), count |-> r.cnt,
           err |-> NoError]

\* make_subscribe_request: the tokens in iteration order, joined by ',',
\* and their number.
make_subscribe_request(subscriptions) ==
  IF Len(subscriptions) = 0
  THEN [ok |-> FALSE, request |-> Request("subscribe", <<>>), count |-> 0,
        err |-> NoSubscriptions]
  ELSE LET r == fold(subscriptions, 2, [subs |-> to_string(subscriptions[1]), cnt |-> 1])
       IN [ok |-> TRUE, request |-> Request("subscribe", r.subs), count |-> r.cnt,
           err |-> NoError]

(***************************************************************************)
(* check_responses: walk the items of one frame, counting down on each     *)
(* status with the expected code.                                          *)
(***************************************************************************)
\* check_responses counting data items as if they were acknowledgements.
RECURSIVE check_loop_counts_data(_, _, _, _, _)
check_loop_counts_data(messages, i, expected, count, operation) ==
  IF i > Len(messages)
  THEN [ok |-> TRUE, count |-> count, err |-> NoError, examined |-> Len(messages)]
  ELSE IF IsStatus(messages[i]) /\ messages[i].status # expected
       THEN [ok |-> FALSE, count |-> count,
             err |-> StrError(<<operation, " not successful: ", messages[i].message>>),
             examined |-> i]
       ELSE IF count - 1 <= 0
            THEN [ok |-> TRUE, count |-> count - 1, err |-> NoError, examined |-> i]
            ELSE check_loop_counts_data(messages, i + 1, expected, count - 1, operation)

\* check_responses looking at every item of the frame, also once the count
\* is used up.
RECURSIVE check_loop_without_break(_, _, _, _, _)
check_loop_without_break(messages, i, expected, count, operation) ==
  IF i > Len(messages)
  THEN [ok |-> TRUE, count |-> count, err |-> NoError, examined |-> Len(messages)]
  ELSE IF IsStatus(messages[i])
       THEN IF messages[i].status # expected
            THEN [ok |-> FALSE, count |-> count,
                  err |-> StrError(<<operation, " not successful: ", messages[i].message>>),
                  examined |-> i]
            ELSE check_loop_without_break(messages, i + 1, expected,
                                          IF count > 0 THEN count - 1 ELSE 0, operation)
       ELSE check_loop_without_break(messages, i + 1, expected, count, operation)

\* check_responses leaving the item loop one status late.
RECURSIVE check_loop_late_break(_, _, _, _, _)
check_loop_late_break(messages, i, expected, count, operation) ==
  IF i > Len(messages)
  THEN [ok |-> TRUE, count |-> count, err |-> NoError, examined |-> Len(messages)]
  ELSE IF IsStatus(messages[i])
       THEN IF messages[i].status # expected
            THEN [ok |-> FALSE, count |-> count,
                  err |-> StrError(<<operation, " not successful: ", messages[i].message>>),
                  examined |-> i]
            ELSE IF count - 1 < 0
                 THEN [ok |-> TRUE, count |-> count - 1, err |-> NoError, examined |-> i]
                 ELSE check_loop_late_break(messages, i + 1, expected, count - 1, operation)
       ELSE check_loop_late_break(messages, i + 1, expected, count, operation)

RECURSIVE check_loop(_, _, _, _, _)
check_loop(messages, i, expected, count, operation) ==
  IF i > Len(messages)
  THEN [ok |-> TRUE, count |-> count, err |-> NoError, examined |-> Len(messages)]
  ELSE IF IsStatus(messages[i])
       THEN IF messages[i].status # expected
            THEN [ok |-> FALSE, count |-> count,
                  err |-> StrError(<<operation, " not successful: ", messages[i].message>>),
                  examined |-> i]
            ELSE IF count - 1 <= 0
                 THEN [ok |-> TRUE, count |-> count - 1, err |-> NoError, examined |-> i]
                 ELSE check_loop(messages, i + 1, expected, count - 1, operation)
       ELSE check_loop(messages, i + 1, expected, count, operation)

\* check_responses passing over a frame that does not decode.
check_responses_skips_undecodable(msg, expected, count, operation) ==
  IF ~(count > 0)
  THEN [ok |-> FALSE, count |-> count, err |-> StrError(<<"assertion failed: count > 0">>),
        examined |-> 0]
  ELSE IF ~from_json(msg).ok
       THEN [ok |-> TRUE, count |-> count, err |-> NoError, examined |-> 0]
       ELSE check_loop(from_json(msg).msgs, 1, expected, count, operation)

check_responses(msg, expected, count, operation) ==
  IF ~(count > 0)
  THEN [ok |-> FALSE, count |-> count, err |-> StrError(<<"assertion failed: count > 0">>),
        examined |-> 0]
  ELSE IF ~from_json(msg).ok
       THEN [ok |-> FALSE, count |-> count, err |-> JsonError, examined |-> 0]
       ELSE check_loop(from_json(msg).msgs, 1, expected, count, operation)


(***************************************************************************)
(* State.                                                                  *)
(***************************************************************************)
VARIABLES
  pc,          \* position of the session
  subs,        \* the subscriptions handed to stream(), in iteration order
  count,       \* pending count of the running await_responses
  sent,        \* frames the client wrote to the socket, in order
  error,       \* the error stream() returned (NoError while none)
  counted,     \* history: codes of the statuses that were counted down
  control,     \* history: what the socket yielded during the handshake other than data frames
  dropped,     \* history: the phase in which a frame of data items only was last passed over
  probe,       \* a frame the server is known to send next, with the loop state it meets
  stop,        \* the stopped flag of the event stream
  messages,    \* the buffer of undelivered decoded items
  yielded,     \* history: what the caller got since the socket was last read
  current,     \* history: the item classes of what the socket handed over last
  closed,      \* history: number of AlreadyClosed errors the caller got
  previous,    \* history: what the socket handed over before that
  nIn,         \* history: number of transport items the event stream took in
  norm,        \* a call of normalize: its input and what came of it
  client,      \* the ApiInfo a Client owns
  call,        \* the last call made on the client and what came of it
  command,     \* the command handed to stream_with_decoder: what the child writes, how it ends
  child,       \* the child process: "unspawned", "running", "closed" (stdout closed), "exited"
  todo,        \* bytes the child has yet to write
  pipe,        \* bytes the child wrote that the reader thread has not read
  thread,      \* the reader thread: "none", "reading", "returned"
  chan,        \* the channel between the reader thread and the stream
  receiver,    \* the receiving end of the channel: "none", "held", "dropped"
  bytes,       \* Streamer.bytes, the undecoded input
  objects,     \* history: what the decoded stream yielded, in order
  finished,    \* history: the decoded stream returned Ready(None)
  failures     \* history: number of failed reads of the child's stdout

vars == <<pc, subs, count, sent, error, counted, control, dropped, probe, stop, messages,
          yielded, current, closed, previous, nIn, norm, client, call,
          command, child, todo, pipe, thread, chan, receiver, bytes, objects, finished, failures>>

\* The variables of a streamed child process.
processVars ==
  <<command, child, todo, pipe, thread, chan, receiver, bytes, objects, finished, failures>>

streamVars == <<stop, messages, yielded, current, closed, previous, nIn>>

\* The variables of a streaming session.
sessionVars == <<pc, subs, count, sent, error, counted, control, dropped, probe, streamVars>>

AwaitStates == {"await_connected", "await_auth", "await_subscribe"}

\* The authentication phase waiting for `success`.
Expected_auth_awaits_success(p) ==
  CASE p = "await_connected" -> "connected"
    [] p = "await_auth" -> "success"
    [] p = "await_subscribe" -> "success"

\* The first phase waiting for `auth_success`.
Expected_connect_awaits_auth(p) ==
  CASE p = "await_connected" -> "auth_success"
    [] p = "await_auth" -> "auth_success"
    [] p = "await_subscribe" -> "success"

\* The arguments each phase passes to await_responses.
Expected(p) ==
  CASE p = "await_connected" -> "connected"
    [] p = "await_auth" -> "auth_success"
    [] p = "await_subscribe" -> "success"

\* The authentication phase reporting as the subscription.
Operation_auth_as_subscription(p) ==
  CASE p = "await_connected" -> "connection"
    [] p = "await_auth" -> "subscription"
    [] p = "await_subscribe" -> "subscription"

Operation(p) ==
  CASE p = "await_connected" -> "connection"
    [] p = "await_auth" -> "authentication"
    [] p = "await_subscribe" -> "subscription"

\* The handshake subscribing right after the connection was confirmed.
AfterAwait_skips_auth(p) ==
  CASE p = "await_connected" -> "send_subscribe"
    [] p = "await_auth" -> "send_subscribe"
    [] p = "await_subscribe" -> "streaming"

\* Where the handshake goes when an await loop returns Ok.
AfterAwait(p) ==
  CASE p = "await_connected" -> "send_auth"
    [] p = "await_auth" -> "send_subscribe"
    [] p = "await_subscribe" -> "streaming"

Garbage == [valid |-> FALSE, items |-> <<>>]
NoProbe == [set |-> FALSE, frame |-> Garbage, phase |-> "none", before |-> 0, fed |-> FALSE,
            after |-> 0, examined |-> 0, err |-> NoError]

\* The frames the client writes.
AuthRequest == [typ |-> "Text", body |-> Request("auth", API_KEY)]
SubscribeRequest(request) == [typ |-> "Text", body |-> request]
\* A pong that does not carry the ping's payload.
Pong_without_payload(dat) == [typ |-> "Pong", body |-> ""]
Pong(dat) == [typ |-> "Pong", body |-> dat]

StreamInit ==
  /\ stop = FALSE
  /\ messages = <<>>
  /\ yielded = <<>>
  /\ current = <<>>
  /\ closed = 0
  /\ previous = [kind |-> "none", cause |-> "-", events |-> 0]
  /\ nIn = 0

\* No call of normalize.
NoRequest == [ok |-> FALSE, request |-> Request("none", <<>>), count |-> 0, err |-> NoError]
NoNorm ==
  [phase |-> "none", input |-> <<>>, once |-> {}, twice |-> {}, other |-> <<>>,
   built |-> NoRequest]

\* No client at hand.
NoClient ==
  [api_url |-> [scheme |-> "-", host |-> "-", path |-> <<>>, query |-> [some |-> FALSE, string |-> <<>>]],
   stream_url |-> [scheme |-> "-", host |-> "-", path |-> <<>>, query |-> [some |-> FALSE, string |-> <<>>]],
   api_key |-> <<>>]
NoCall == [op |-> "none", n |-> 0]

\* A command that names no program, and nothing spawned.
NoCommand == [found |-> FALSE, output |-> <<>>, signal |-> FALSE, code |-> 0]
ProcessIdle ==
  /\ child = "unspawned"
  /\ todo = <<>>
  /\ pipe = <<>>
  /\ thread = "none"
  /\ chan = <<>>
  /\ receiver = "none"
  /\ bytes = <<>>
  /\ objects = <<>>
  /\ finished = FALSE
  /\ failures = 0
NoProcess ==
  /\ command = NoCommand
  /\ ProcessIdle

Init ==
  /\ pc = "connect"
  /\ subs \in {SessionSubs(n) : n \in 0..MaxSubs}
  /\ count = 0
  /\ sent = <<>>
  /\ error = NoError
  /\ counted = <<>>
  /\ control = <<>>
  /\ dropped = "none"
  /\ probe = NoProbe
  /\ StreamInit
  /\ norm = NoNorm
  /\ client = NoClient
  /\ call = NoCall
  /\ NoProcess

(***************************************************************************)
(* stream(): connect, then the handshake.                                  *)
(***************************************************************************)
\* An error that is recorded while the handshake goes on.
Fail_goes_on(err) ==
  /\ pc' = pc
  /\ error' = err

\* The `?` on a failed step: stream() returns the error.
Fail(err) ==
  /\ pc' = "failed"
  /\ error' = err

\* connect_async succeeded; handshake() enters await_responses(Connected, 1).
connect_ok ==
  /\ pc = "connect"
  /\ pc' = "await_connected"
  /\ count' = 1
  /\ UNCHANGED <<processVars, client, call, norm, subs, sent, error, counted, control, dropped, probe, streamVars>>

connect_err ==
  /\ pc = "connect"
  /\ Fail(WebSocketError("connect"))
  /\ UNCHANGED <<processVars, client, call, norm, subs, count, sent, counted, control, dropped, probe, streamVars>>

\* The codes check_responses counted down in the examined part of a frame.
RECURSIVE CountedCodes(_, _, _)
CountedCodes(items, n, expected) ==
  IF n = 0 THEN <<>>
  ELSE IF IsStatus(items[n]) /\ items[n].status = expected
       THEN Append(CountedCodes(items, n - 1, expected), expected)
       ELSE CountedCodes(items, n - 1, expected)

\* A frame that decodes to one or more data items and nothing else.
DataOnly(frame) ==
  /\ from_json(frame).ok
  /\ Len(frame.items) > 0
  /\ \A i \in 1..Len(frame.items) : IsData(frame.items[i])

\* One iteration of the await_responses loop on a text or binary frame; both
\* hand their bytes to check_responses.
await_data(frame) ==
  LET r == check_responses(frame, Expected(pc), count, Operation(pc)) IN
  /\ pc \in AwaitStates
  /\ count > 0
  /\ IF r.ok
     THEN /\ count' = r.count
          /\ counted' = counted \o CountedCodes(frame.items, r.examined, Expected(pc))
          /\ pc' = IF r.count > 0 THEN pc ELSE AfterAwait(pc)
          /\ UNCHANGED error
     ELSE /\ Fail(r.err)
          /\ UNCHANGED <<count, counted>>
  /\ dropped' = IF DataOnly(frame) THEN pc ELSE dropped
  /\ UNCHANGED <<processVars, client, call, norm, subs, sent, control, streamVars>>

await_frame ==
  /\ ~probe.set
  /\ \E frame \in Frames : await_data(frame)
  /\ UNCHANGED probe

\* A ping is answered with a pong of the same payload; the send may fail.
await_ping ==
  \E dat \in Payloads, sendOk \in BOOLEAN :
    /\ ~probe.set
    /\ pc \in AwaitStates
    /\ count > 0
    /\ Len(control) < MaxControl
    /\ control' = Append(control, [typ |-> "Ping", body |-> dat])
    /\ IF sendOk
       THEN /\ sent' = Append(sent, Pong(dat))
            /\ UNCHANGED <<pc, error>>
       ELSE /\ Fail(WebSocketError("send"))
            /\ UNCHANGED sent
    /\ UNCHANGED <<processVars, client, call, norm, subs, count, counted, dropped, probe, streamVars>>

\* A pong is ignored.
await_pong ==
  /\ ~probe.set
  /\ pc \in AwaitStates
  /\ count > 0
  /\ Len(control) < MaxControl
  /\ control' = Append(control, [typ |-> "Pong", body |-> ""])
  /\ UNCHANGED <<processVars, client, call, norm, pc, subs, count, sent, error, counted, dropped, probe, streamVars>>

\* A close frame ends the handshake.
await_close ==
  /\ ~probe.set
  /\ pc \in AwaitStates
  /\ count > 0
  /\ control' = Append(control, [typ |-> "Close", body |-> ""])
  /\ Fail(ClosedUnexpectedly)
  /\ UNCHANGED <<processVars, client, call, norm, subs, count, sent, counted, dropped, probe, streamVars>>

\* The await loop taking the end of the socket for the end of the phase.
await_end_returns_ok ==
  /\ ~probe.set
  /\ pc \in AwaitStates
  /\ count > 0
  /\ control' = Append(control, [typ |-> "End", body |-> ""])
  /\ pc' = AfterAwait(pc)
  /\ UNCHANGED <<processVars, client, call, norm, subs, count, sent, error, counted, dropped, probe, streamVars>>

\* The socket yields end-of-stream while the loop waits.
await_end ==
  /\ ~probe.set
  /\ pc \in AwaitStates
  /\ count > 0
  /\ control' = Append(control, [typ |-> "End", body |-> ""])
  /\ Fail(ClosedUnexpectedly)
  /\ UNCHANGED <<processVars, client, call, norm, subs, count, sent, counted, dropped, probe, streamVars>>

\* The socket yields a transport error while the loop waits.
await_error ==
  /\ ~probe.set
  /\ pc \in AwaitStates
  /\ count > 0
  /\ control' = Append(control, [typ |-> "Error", body |-> ""])
  /\ Fail(WebSocketError("transport"))
  /\ UNCHANGED <<processVars, client, call, norm, subs, count, sent, counted, dropped, probe, streamVars>>

\* authenticate(): send the auth request, then await_responses(AuthSuccess, 1).
auth ==
  \E sendOk \in BOOLEAN :
    /\ pc = "send_auth"
    /\ IF sendOk
       THEN /\ sent' = Append(sent, AuthRequest)
            /\ pc' = "await_auth"
            /\ count' = 1
            /\ UNCHANGED error
       ELSE /\ Fail(WebSocketError("send"))
            /\ UNCHANGED <<sent, count>>
    /\ UNCHANGED <<processVars, client, call, norm, subs, counted, control, dropped, probe, streamVars>>

\* subscribe(): subscribe_stocks() builds and sends the request, then
\* await_responses(Success, count).
subscribe_stocks ==
  \E sendOk \in BOOLEAN :
    LET r == make_subscribe_request(subs) IN
    /\ pc = "send_subscribe"
    /\ IF ~r.ok
       THEN /\ Fail(r.err)
            /\ UNCHANGED <<sent, count>>
       ELSE IF sendOk
            THEN /\ sent' = Append(sent, SubscribeRequest(r.request))
                 /\ pc' = IF r.count > 0 THEN "await_subscribe" ELSE "streaming"
                 /\ count' = r.count
                 /\ UNCHANGED error
            ELSE /\ Fail(WebSocketError("send"))
                 /\ UNCHANGED <<sent, count>>
    /\ UNCHANGED <<processVars, client, call, norm, subs, counted, control, dropped, probe, streamVars>>

Handshake ==
  \/ connect_ok
  \/ connect_err
  \/ await_frame
  \/ await_ping
  \/ await_pong
  \/ await_close
  \/ await_end
  \/ await_error
  \/ auth
  \/ subscribe_stocks

Next == Handshake

Spec == Init /\ [][Next]_vars

(***************************************************************************)
(* The handshake against a server that answers as the protocol says, on a *)
(* transport that neither closes nor fails.                                *)
(***************************************************************************)
\* The status the server answers with to the connection, to the auth
\* request and to each subscription.
Acknowledgement(phase) ==
  CASE phase = "await_connected" -> "connected"
    [] phase = "await_auth" -> "auth_success"
    [] phase = "await_subscribe" -> "success"

\* A frame holding that one status.
StatusFrames(phase) ==
  {[valid |-> TRUE,
    items |-> <<[ev |-> "status", status |-> Acknowledgement(phase), message |-> m]>>] :
     m \in Msgs}

\* The server sends the status that answers what the client did last, in a
\* frame of its own.
server_status ==
  /\ ~probe.set
  /\ pc \in AwaitStates
  /\ \E frame \in StatusFrames(pc) : await_data(frame)
  /\ UNCHANGED probe

\* The server sends a frame of data items.
server_data ==
  /\ ~probe.set
  /\ \E frame \in {f \in Frames : DataOnly(f)} : await_data(frame)
  /\ UNCHANGED probe

\* The server sends a ping and the pong is written.
server_ping == await_ping /\ pc' # "failed"

\* The requests are written.
auth_sent == auth /\ pc' # "failed"
subscribe_sent == subscribe_stocks /\ pc' # "failed"

InitLive ==
  /\ Init
  /\ subs # <<>>

NextLive ==
  \/ connect_ok
  \/ server_status
  \/ server_data
  \/ server_ping
  \/ await_pong
  \/ auth_sent
  \/ subscribe_sent

\* The client runs on when it can, and the server sends each status in the
\* end, after finitely many other frames.
SpecLive ==
  /\ InitLive
  /\ [][NextLive]_vars
  /\ WF_vars(connect_ok)
  /\ WF_vars(auth_sent)
  /\ WF_vars(subscribe_sent)
  /\ WF_vars(server_status)

(***************************************************************************)
(* One iteration of an await loop on a known frame: the session starts in  *)
(* a state in which a handshake waits (the requests of the earlier phases  *)
(* sent, their statuses counted) and the server sends one frame.           *)
(***************************************************************************)
Repeat(x, n) == [i \in 1..n |-> x]

SentUpTo(p, subscriptions) ==
  CASE p = "await_connected" -> <<>>
    [] p = "await_auth" -> <<AuthRequest>>
    [] p = "await_subscribe" ->
         <<AuthRequest, SubscribeRequest(make_subscribe_request(subscriptions).request)>>

CountedUpTo(p, subscriptions, c) ==
  CASE p = "await_connected" -> <<>>
    [] p = "await_auth" -> <<"connected">>
    [] p = "await_subscribe" ->
         <<"connected", "auth_success">> \o Repeat("success", Len(subscriptions) - c)

InitStep ==
  /\ pc \in AwaitStates
  /\ subs \in {SessionSubs(n) : n \in 0..MaxSubs}
  /\ count \in 1..MaxSubs
  /\ IF pc = "await_subscribe" THEN count <= Len(subs) ELSE count = 1
  /\ sent = SentUpTo(pc, subs)
  /\ error = NoError
  /\ counted = CountedUpTo(pc, subs, count)
  /\ control = <<>>
  /\ dropped = "none"
  /\ \E frame \in Frames :
       probe = [NoProbe EXCEPT !.set = TRUE, !.frame = frame, !.phase = pc, !.before = count]
  /\ StreamInit
  /\ norm = NoNorm
  /\ client = NoClient
  /\ call = NoCall
  /\ NoProcess

await_probe ==
  /\ probe.set
  /\ ~probe.fed
  /\ await_data(probe.frame)
  /\ probe' = [probe EXCEPT
                 !.fed = TRUE,
                 !.after = count',
                 !.err = error',
                 !.examined = check_responses(probe.frame, Expected(pc), count,
                                              Operation(pc)).examined]

NextStep ==
  \/ await_probe
  \/ auth
  \/ subscribe_stocks

SpecStep == InitStep /\ [][NextStep]_vars

(***************************************************************************)
(* The event stream stream() returns: handle_msg over the decoded frames.  *)
(***************************************************************************)
AlreadyClosed == WebSocketError("AlreadyClosed")

\* process_message passing over `disconnected` like any other status.
process_message_ignores_disconnect(message) ==
  IF IsStatus(message)
  THEN [some |-> FALSE, ok |-> TRUE, event |-> "-", err |-> NoError]
  ELSE [some |-> TRUE, ok |-> TRUE, event |-> message.ev, err |-> NoError]

\* process_message taking every status for the end of the connection.
process_message_closes_on_any_status(message) ==
  IF IsStatus(message)
  THEN [some |-> TRUE, ok |-> FALSE, event |-> "-", err |-> AlreadyClosed]
  ELSE [some |-> TRUE, ok |-> TRUE, event |-> message.ev, err |-> NoError]

\* process_message: an event for a data item, the AlreadyClosed error for a
\* `disconnected` status, nothing for any other status.
process_message(message) ==
  IF IsStatus(message)
  THEN IF message.status = "disconnected"
       THEN [some |-> TRUE, ok |-> FALSE, event |-> "-", err |-> AlreadyClosed]
       ELSE [some |-> FALSE, ok |-> TRUE, event |-> "-", err |-> NoError]
  ELSE [some |-> TRUE, ok |-> TRUE, event |-> message.ev, err |-> NoError]

\* The buffer holds the items of a frame together with where they came from.
Buffered(frame, f) == [i \in 1..Len(frame) |-> [msg |-> frame[i], f |-> f, i |-> i]]

\* What the caller gets.
YieldOf(entry, r) ==
  IF r.ok THEN [kind |-> "event", event |-> r.event, f |-> entry.f, i |-> entry.i]
  ELSE [kind |-> "websocket", event |-> r.err.text[1], f |-> entry.f, i |-> entry.i]

\* handle_msg throwing away what is left of a frame once it yielded.
RECURSIVE pop_loop_drops_rest(_)
pop_loop_drops_rest(buffer) ==
  IF Len(buffer) = 0
  THEN [yield |-> FALSE, item |-> <<>>, stop |-> FALSE, rest |-> <<>>]
  ELSE LET entry == buffer[Len(buffer)]
           rest == SubSeq(buffer, 1, Len(buffer) - 1)
           r == process_message(entry.msg)
       IN IF r.some
          THEN [yield |-> TRUE, item |-> <<YieldOf(entry, r)>>, stop |-> ~r.ok, rest |-> <<>>]
          ELSE pop_loop_drops_rest(rest)

\* handle_msg taking the buffered items from the front.
RECURSIVE pop_loop_from_front(_)
pop_loop_from_front(buffer) ==
  IF Len(buffer) = 0
  THEN [yield |-> FALSE, item |-> <<>>, stop |-> FALSE, rest |-> <<>>]
  ELSE LET entry == Head(buffer)
           rest == Tail(buffer)
           r == process_message(entry.msg)
       IN IF r.some
          THEN [yield |-> TRUE, item |-> <<YieldOf(entry, r)>>, stop |-> ~r.ok, rest |-> rest]
          ELSE pop_loop_from_front(rest)

\* The loop of handle_msg up to its next suspension: pop from the back until
\* an item produces a result or the buffer is empty.
RECURSIVE pop_loop(_)
pop_loop(buffer) ==
  IF Len(buffer) = 0
  THEN [yield |-> FALSE, item |-> <<>>, stop |-> FALSE, rest |-> <<>>]
  ELSE LET entry == buffer[Len(buffer)]
           rest == SubSeq(buffer, 1, Len(buffer) - 1)
           r == process_message(entry.msg)
       IN IF r.some
          THEN [yield |-> TRUE, item |-> <<YieldOf(entry, r)>>, stop |-> ~r.ok, rest |-> rest]
          ELSE pop_loop(rest)

\* handle_msg awaiting the socket before it looks at the buffer.
Resume_awaits_socket_first(buffer, got) ==
  /\ messages' = buffer
  /\ yielded' = got
  /\ pc' = "reading"
  /\ UNCHANGED <<closed, stop>>

\* handle_msg going back to the socket while items are still buffered.
Resume_reads_ahead(buffer, got) ==
  LET r == pop_loop(buffer) IN
  /\ messages' = r.rest
  /\ yielded' = got \o r.item
  /\ closed' = IF r.stop THEN closed + 1 ELSE closed
  /\ stop' = (stop \/ r.stop)
  /\ pc' = IF r.yield /\ r.rest = <<>> THEN "streaming" ELSE "reading"

\* Continue handle_msg with the given buffer; `got` is what the caller got
\* since the socket was last read.
Resume(buffer, got) ==
  LET r == pop_loop(buffer) IN
  /\ messages' = r.rest
  /\ yielded' = got \o r.item
  /\ closed' = IF r.stop THEN closed + 1 ELSE closed
  /\ stop' = (stop \/ r.stop)
  /\ pc' = IF r.yield THEN "streaming" ELSE "reading"

\* A poll that does not look at the stopped flag.
poll_ignores_stop ==
  /\ pc = "streaming"
  /\ Resume(messages, yielded)
  /\ UNCHANGED <<processVars, client, call, norm, subs, count, sent, error, counted, control, dropped, probe, current, previous, nIn>>

\* The caller polls the stream: handle_msg runs until it yields or has to
\* wait for the socket.
poll ==
  /\ pc = "streaming"
  /\ IF stop
     THEN /\ pc' = "ended"
          /\ UNCHANGED <<stop, messages, yielded, closed>>
     ELSE Resume(messages, yielded)
  /\ UNCHANGED <<processVars, client, call, norm, subs, count, sent, error, counted, control, dropped, probe, current, previous, nIn>>

\* How a decoded item shows in the history of what the socket handed over.
Class(item) ==
  IF IsData(item) THEN item.ev
  ELSE IF item.status = "disconnected" THEN "disconnected" ELSE "status"

\* Why serde_json rejects a frame: it is no JSON array, or the first element
\* that is no Message has an "ev" that names no variant or a "status" that
\* names no Code.
Rejected(frame) ==
  IF ~frame.valid THEN "no array"
  ELSE LET k == CHOOSE j \in DOMAIN frame.items :
                  ~Message(frame.items[j]) /\ \A h \in 1..(j - 1) : Message(frame.items[h])
       IN IF IsStatus(frame.items[k]) THEN "unknown code" ELSE "unknown tag"
Undecodable == {<<"no array">>, <<"unknown code">>, <<"unknown tag">>}

\* What the socket handed over last: a frame that decoded, one that did not,
\* or a transport error; and the number of events the caller got for it.
InputKind ==
  [kind |-> IF nIn = 0 THEN "none"
            ELSE IF current \in Undecodable THEN "undecodable"
            ELSE IF current = <<"error">> THEN "error"
            ELSE "frame",
   cause |-> IF current \in Undecodable THEN current[1] ELSE "-",
   events |-> Cardinality({k \in DOMAIN yielded : yielded[k].kind = "event"})]

\* What the caller gets for a frame that failed to decode.
DecodeErrorItem(f) == [kind |-> "json", event |-> "-", f |-> f, i |-> 0]

\* handle_msg taking a decode error for the end of the connection.
decode_error_is_fatal(f) ==
  /\ yielded' = <<DecodeErrorItem(f)>>
  /\ pc' = "streaming"
  /\ stop' = TRUE
  /\ UNCHANGED <<messages, closed>>

\* handle_msg on a frame that failed to decode: the error goes to the
\* caller, nothing else changes.
decode_error(f) ==
  /\ yielded' = <<DecodeErrorItem(f)>>
  /\ pc' = "streaming"
  /\ UNCHANGED <<stop, messages, closed>>

\* The socket hands over a text or binary frame, decoded by the closure
\* stream() maps over it.
take_frame(frame) ==
  LET new == from_json(frame) IN
  /\ pc = "reading"
  /\ nIn < MaxStreamInputs
  /\ nIn' = nIn + 1
  /\ IF new.ok
     THEN /\ current' = [i \in 1..Len(new.msgs) |-> Class(new.msgs[i])]
          /\ Resume(Buffered(new.msgs, nIn + 1), <<>>)
     ELSE /\ current' = <<Rejected(frame)>>
          /\ decode_error(nIn + 1)
  /\ previous' = InputKind
  /\ UNCHANGED <<processVars, client, call, norm, subs, count, sent, error, counted, control, dropped>>

read_frame ==
  /\ \E frame \in StreamFrames : take_frame(frame)
  /\ UNCHANGED probe

\* What the caller gets for an error of the socket.
TransportErrorItem(f) == [kind |-> "websocket", event |-> "transport", f |-> f, i |-> 0]

\* The socket reports a transport error: handle_msg passes it on and leaves
\* the stopped flag alone.
read_error ==
  /\ pc = "reading"
  /\ nIn < MaxStreamInputs
  /\ nIn' = nIn + 1
  /\ current' = <<"error">>
  /\ previous' = InputKind
  /\ yielded' = <<TransportErrorItem(nIn + 1)>>
  /\ pc' = "streaming"
  /\ UNCHANGED <<processVars, client, call, norm, subs, count, sent, error, counted, control, dropped, probe, stop, messages, closed>>

\* The socket yields end-of-stream.
read_end ==
  /\ pc = "reading"
  /\ pc' = "ended"
  /\ UNCHANGED <<processVars, client, call, norm, subs, count, sent, error, counted, control, dropped, probe, streamVars>>

\* The state in which stream() returns the event stream.
InitStream ==
  /\ pc = "streaming"
  /\ subs = SessionSubs(2)
  /\ count = 0
  /\ sent = SentUpTo("await_subscribe", subs)
  /\ error = NoError
  /\ counted = CountedUpTo("await_subscribe", subs, 0)
  /\ control = <<>>
  /\ dropped = "none"
  /\ probe = NoProbe
  /\ StreamInit
  /\ norm = NoNorm
  /\ client = NoClient
  /\ call = NoCall
  /\ NoProcess

NextStream ==
  \/ poll
  \/ read_frame
  \/ read_error
  \/ read_end

SpecStream == InitStream /\ [][NextStream]_vars

(***************************************************************************)
(* One frame, met by an await loop of the handshake or by the event       *)
(* stream.                                                                 *)
(***************************************************************************)
\* The event stream reads the frame the server is known to send.
read_probe ==
  /\ probe.set
  /\ ~probe.fed
  /\ take_frame(probe.frame)
  /\ probe' = [probe EXCEPT !.fed = TRUE]

\* An await loop about to get the frame, or an event stream about to.
InitDecode ==
  \/ InitStep
  \/ /\ pc = "streaming"
     /\ subs = SessionSubs(2)
     /\ count = 0
     /\ sent = SentUpTo("await_subscribe", subs)
     /\ error = NoError
     /\ counted = CountedUpTo("await_subscribe", subs, 0)
     /\ control = <<>>
     /\ dropped = "none"
     /\ \E frame \in Frames :
          probe = [NoProbe EXCEPT !.set = TRUE, !.frame = frame, !.phase = "streaming"]
     /\ StreamInit
     /\ norm = NoNorm
     /\ client = NoClient
     /\ call = NoCall
     /\ NoProcess

NextDecode ==
  \/ await_probe
  \/ auth
  \/ subscribe_stocks
  \/ poll
  \/ read_probe
  \/ read_end

SpecDecode == InitDecode /\ [][NextDecode]_vars

(***************************************************************************)
(* Client::subscribe: the subscriptions are normalized before the session  *)
(* is opened (src/client.rs).                                              *)
(***************************************************************************)
Range(s) == {s[k] : k \in DOMAIN s}
All(kind) == [kind |-> kind, stock |-> "*"]

\* The orders in which a HashSet may hand out its elements.
Orders(S) == {s \in [1..Cardinality(S) -> S] : Range(s) = S}

\* retain dropping a single symbol of the kind per call.
retain_drops_one_symbol(set, kind) ==
  LET symbols == {sub \in set : sub.kind = kind /\ sub.stock # "*"} IN
  IF All(kind) \in set /\ symbols # {}
  THEN set \ {CHOOSE sub \in symbols : sub.stock = "MSFT" \/ \A other \in symbols : other.stock # "MSFT"}
  ELSE set

\* retain letting the wildcard of one kind clear the symbols of all kinds.
retain_across_kinds(set, kind) ==
  IF All(kind) \in set
  THEN {sub \in set : sub.stock = "*"}
  ELSE set

\* retain filtering without asking whether the wildcard is there.
retain_without_wildcard(set, kind) ==
  {sub \in set : sub.kind = kind => sub.stock = "*"}

\* retain leaving the symbols of the kind next to its wildcard.
retain_keeps_symbols(set, kind) == set

\* One `if subs.contains(K(All)) { subs.retain(..) }` block of normalize.
retain(set, kind) ==
  IF All(kind) \in set
  THEN {sub \in set : sub.kind = kind => sub.stock = "*"}
  ELSE set

\* normalize: collect into a set, then one block per kind.
normalize(subscriptions) ==
  LET collected == Range(subscriptions)
      seconds == retain(collected, "SecondAggregates")
      minutes == retain(seconds, "MinuteAggregates")
      trades == retain(minutes, "Trades")
  IN retain(trades, "Quotes")

\* A caller normalizes a collection of subscriptions.
normalize_input ==
  /\ norm.phase = "given"
  /\ norm' = [norm EXCEPT !.phase = "once", !.once = normalize(norm.input)]
  /\ UNCHANGED <<processVars, client, call, sessionVars>>

\* The result is normalized again, iterated in any order.
normalize_again ==
  /\ norm.phase = "once"
  /\ \E order \in Orders(norm.once) :
       norm' = [norm EXCEPT !.phase = "twice", !.twice = normalize(order)]
  /\ UNCHANGED <<processVars, client, call, sessionVars>>

Kinds == {"SecondAggregates", "MinuteAggregates", "Trades", "Quotes"}
OfKind(set, kind) == {sub \in set : sub.kind = kind}

\* The subscriptions of one kind alone are normalized.
normalize_kind ==
  /\ norm.phase = "once"
  /\ \E kind \in Kinds :
       LET only == SelectSeq(norm.input, LAMBDA sub : sub.kind = kind) IN
       norm' = [norm EXCEPT !.phase = "kind", !.other = only, !.twice = normalize(only)]
  /\ UNCHANGED <<processVars, client, call, sessionVars>>

\* The same subscriptions are normalized in another order, one of them
\* possibly once more.
normalize_shuffled ==
  /\ norm.phase = "once"
  /\ \E order \in Orders(Range(norm.input)) :
       \E extra \in SeqsUpTo(Range(norm.input), 1) :
         norm' = [norm EXCEPT !.phase = "shuffled", !.other = order \o extra,
                              !.twice = normalize(order \o extra)]
  /\ UNCHANGED <<processVars, client, call, sessionVars>>

\* The subscribe request is built for the subscriptions as they are given.
encode_subscribe_request ==
  /\ norm.phase = "given"
  /\ norm' = [norm EXCEPT !.phase = "encoded", !.built = make_subscribe_request(norm.input)]
  /\ UNCHANGED <<processVars, client, call, sessionVars>>

InitNormalize ==
  /\ pc = "connect"
  /\ subs = <<>>
  /\ count = 0
  /\ sent = <<>>
  /\ error = NoError
  /\ counted = <<>>
  /\ control = <<>>
  /\ dropped = "none"
  /\ probe = NoProbe
  /\ StreamInit
  /\ norm \in [phase : {"given"}, input : SeqsUpTo(Subscription, MaxNormalizeLen),
               once : {{}}, twice : {{}}, other : {<<>>}, built : {NoRequest}]
  /\ client = NoClient
  /\ call = NoCall
  /\ NoProcess

NextNormalize ==
  \/ normalize_input
  \/ normalize_again
  \/ normalize_kind
  \/ normalize_shuffled
  \/ encode_subscribe_request

SpecNormalize == InitNormalize /\ [][NextNormalize]_vars

(***************************************************************************)
(* The REST side of the Client: the response envelope (src/api/response.rs)*)
(* and the request URL (src/client.rs).                                    *)
(***************************************************************************)
\* The "status" values a server writes into an envelope and the payloads it
\* carries as "results".
Statuses == {"OK", "DELAYED", "ERR", "NOT_FOUND"}
Results == {"r1", "r2"}
Envelope == [status : Statuses, results : Results]

ResponseError(message) == [kind |-> "Response", text |-> <<message>>]

\* Response<T> deserializing without the DELAYED variant.
Response_without_delayed(envelope) ==
  CASE envelope.status = "OK" -> [variant |-> "Ok", data |-> envelope.results]
    [] OTHER -> [variant |-> "Err", data |-> "-"]

\* Response<T> as serde builds it from the envelope: the variant is chosen
\* by "status", `Err` is the unit variant taking every other status.
Response(envelope) ==
  CASE envelope.status = "OK" -> [variant |-> "Ok", data |-> envelope.results]
    [] envelope.status = "DELAYED" -> [variant |-> "Delayed", data |-> envelope.results]
    [] OTHER -> [variant |-> "Err", data |-> "-"]

\* Response::into_result.
into_result(response) ==
  IF response.variant \in {"Ok", "Delayed"}
  THEN [ok |-> TRUE, data |-> response.data, err |-> NoError]
  ELSE [ok |-> FALSE, data |-> "-",
        err |-> ResponseError("an unexpected status was reported")]

\* A URL: scheme, host, path and the optional query.  Paths, queries and
\* credentials are strings, written as sequences of their parts; a '/' that
\* starts a path is a part of its own.
None == [some |-> FALSE, string |-> <<>>]
Some(string) == [some |-> TRUE, string |-> string]
Url(scheme, host, path, query) ==
  [scheme |-> scheme, host |-> host, path |-> path, query |-> query]

\* The credentials a client is configured with; '&' and ' ' are characters
\* a query cannot carry as they are.
ApiKeys == {<<"K">>, <<"K", "&">>, <<" ", "K">>}

\* The URLs a client is configured with (ApiInfo::from_env parses any URL).
ApiUrls ==
  {Url("https", "api.polygon.io", path, query) :
     path \in {<<"/">>, <<"/", "base">>}, query \in {None, Some(<<"x=1">>)}}
StreamUrls ==
  {Url(scheme, "socket.polygon.io", path, None) :
     scheme \in {"wss", "ws", "https", "foo"}, path \in {<<"/">>, <<"/", "feed">>}}
ApiInfo == [api_url : ApiUrls, stream_url : StreamUrls, api_key : ApiKeys]

\* What Endpoint::path and Endpoint::query return for the inputs tried:
\* Exchanges, Quotes for the symbol "A?" and TickerNews.
EndpointInputs ==
  {[path |-> <<"/", "v1/meta/exchanges">>, query |-> None],
   [path |-> <<"/", "v3/quotes/", "A", "?">>, query |-> None],
   [path |-> <<"/", "v1/meta/symbols/", "A", "/news">>,
    query |-> Some(<<"perpage=1", "&", "page=2">>)]}

\* The percent-encoding Url::set_path applies to a path.
EncodePath(path) == [k \in DOMAIN path |-> IF path[k] = "?" THEN "%3F" ELSE path[k]]

\* The form encoding append_pair applies to a value.
EncodeValue(value) ==
  [k \in DOMAIN value |-> CASE value[k] = "&" -> "%26"
                            [] value[k] = " " -> "+"
                            [] OTHER -> value[k]]

\* Url::set_path: the path is replaced; it always starts with '/'.
set_path(target, path) ==
  [target EXCEPT !.path = IF Len(path) > 0 /\ path[1] = "/" THEN EncodePath(path)
                          ELSE <<"/">> \o EncodePath(path)]

\* Url::set_query leaving the query of the base URL when there is none.
set_query_keeps_base(target, query) ==
  IF query.some THEN [target EXCEPT !.query = query] ELSE target

\* Url::set_query: the query is replaced, or removed for None.
set_query(target, query) == [target EXCEPT !.query = query]

\* query_pairs_mut().append_pair: name=value goes to the end of the query,
\* after a '&' if the query is not empty.
append_pair(target, name, value) ==
  LET pair == <<name, "=">> \o EncodeValue(value)
      old == target.query.string
  IN [target EXCEPT !.query = Some(IF Len(old) = 0 THEN pair ELSE old \o <<"&">> \o pair)]

API_KEY_PARAM == "apiKey"

\* url(): the URL of the request for an endpoint and its input.
url(api_info, input) ==
  append_pair(set_query(set_path(api_info.api_url, input.path), input.query),
              API_KEY_PARAM, api_info.api_key)

\* Client::issue: the request goes to the URL built for it.
issue ==
  /\ call.n < MaxCalls
  /\ client # NoClient
  /\ \E input \in EndpointInputs :
       call' = [op |-> "issue", n |-> call.n + 1, input |-> input,
                url |-> url(client, input)]
  /\ UNCHANGED <<processVars, client, norm, sessionVars>>

\* The schemes the URL standard calls special.
SpecialSchemes == {"http", "https", "ws", "wss", "ftp"}

\* Url::set_scheme: the outcomes it can have.  Between two special schemes
\* it succeeds; from a scheme that is not special to one that is, the url
\* crate refuses or accepts depending on its version.
set_scheme(target, scheme) ==
  LET changed == [ok |-> TRUE, url |-> [target EXCEPT !.scheme = scheme]]
      refused == [ok |-> FALSE, url |-> target]
  IN IF (target.scheme \in SpecialSchemes) = (scheme \in SpecialSchemes)
     THEN {changed}
     ELSE {changed, refused}

\* subscribe_ handing the session the client's stream URL as it is.
SessionInfo_keeps_stream_url(info, stream_url) ==
  [api_url |-> info.api_url, stream_url |-> info.stream_url, api_key |-> info.api_key]

\* The ApiInfo subscribe_ builds for the session: clones of the API URL and
\* of the credential, and the derived stream URL.
SessionInfo(info, stream_url) ==
  [api_url |-> info.api_url, stream_url |-> stream_url, api_key |-> info.api_key]

\* Client::subscribe: the subscriptions are normalized, the stream URL is
\* derived from a clone of the client's, and stream() is called with it.
subscribe ==
  /\ call.n < MaxCalls
  /\ client # NoClient
  /\ \E subscriptions \in {SessionSubs(n) : n \in 0..MaxSubs} :
     \E schemed \in set_scheme(client.stream_url, "wss") :
       call' = IF schemed.ok
               THEN [op |-> "subscribe", n |-> call.n + 1, ok |-> TRUE,
                     subscriptions |-> normalize(subscriptions),
                     session |-> SessionInfo(client, set_path(schemed.url, <<"stocks">>)),
                     err |-> NoError]
               ELSE [op |-> "subscribe", n |-> call.n + 1, ok |-> FALSE,
                     subscriptions |-> normalize(subscriptions),
                     session |-> NoClient,
                     err |-> StrError(<<"unable to change URL scheme for ", client.stream_url,
                                        ": invalid URL?">>)]
  /\ UNCHANGED <<processVars, client, norm, sessionVars>>

\* A caller turns a decoded envelope into a result.
decode_into_result ==
  /\ call.n < MaxCalls
  /\ \E envelope \in Envelope :
       call' = [op |-> "into_result", n |-> call.n + 1, envelope |-> envelope,
                result |-> into_result(Response(envelope))]
  /\ UNCHANGED <<processVars, client, norm, sessionVars>>

\* An instant: whole seconds since the Unix epoch and the milliseconds past
\* them, so that the JSON integer is secs * 1000 + millis.
Instant(secs, millis) == [secs |-> secs, millis |-> millis]

\* The values of "t" tried: the epoch, the one of the aggregate test (a
\* winter afternoon in New York), a summer one, and the seconds next to the
\* change to daylight saving time in 2019.
AggregateTimestamps ==
  {Instant(0, 0), Instant(1549314000, 0), Instant(1562000400, 7),
   Instant(1552201199, 999), Instant(1552201200, 0)}

HOUR == 60 * 60
\* The years 1970 and 2019 in New York: daylight saving time from
\* 2019-03-10T07:00:00Z to 2019-11-03T06:00:00Z.
NewYorkOffset(secs) ==
  IF 1552201200 <= secs /\ secs < 1572760800 THEN 0 - 4 * HOUR ELSE 0 - 5 * HOUR

\* A deserializer that takes the integer for milliseconds since the epoch
\* in UTC.
system_time_from_millis(t) == Instant(t.secs, t.millis)

\* The deserializer of Aggregate::timestamp: the integer is read as a time
\* stamp and the time a clock in New York shows at that instant becomes the
\* time of the SystemTime.
system_time_from_millis_in_new_york(t) ==
  Instant(t.secs + NewYorkOffset(t.secs), t.millis)

\* The date and time of an instant in UTC, as parse_system_time_from_str
\* reads "2019-02-04T16:00:00Z".
DateTime(t) ==
  LET days == t.secs \div 86400
      rest == t.secs % 86400
      z == days + 719468
      era == z \div 146097
      doe == z % 146097
      yoe == (doe - doe \div 1460 + doe \div 36524 - doe \div 146096) \div 365
      doy == doe - (365 * yoe + yoe \div 4 - yoe \div 100)
      mp == (5 * doy + 2) \div 153
      m == IF mp < 10 THEN mp + 3 ELSE mp - 9
  IN [year |-> yoe + era * 400 + (IF m <= 2 THEN 1 ELSE 0),
      month |-> m,
      day |-> doy - (153 * mp + 2) \div 5 + 1,
      hour |-> rest \div HOUR,
      minute |-> (rest % HOUR) \div 60,
      second |-> rest % 60,
      millis |-> t.millis]

\* An aggregate is decoded from JSON.
decode_aggregate ==
  /\ call.n < MaxCalls
  /\ \E t \in AggregateTimestamps :
       call' = [op |-> "aggregate", n |-> call.n + 1, t |-> t,
                timestamp |-> system_time_from_millis_in_new_york(t)]
  /\ UNCHANGED <<processVars, client, norm, sessionVars>>

InitClient ==
  /\ pc = "connect"
  /\ subs = <<>>
  /\ count = 0
  /\ sent = <<>>
  /\ error = NoError
  /\ counted = <<>>
  /\ control = <<>>
  /\ dropped = "none"
  /\ probe = NoProbe
  /\ StreamInit
  /\ norm = NoNorm
  /\ client \in ApiInfo
  /\ call = NoCall
  /\ NoProcess

NextClient ==
  \/ issue
  \/ subscribe
  \/ decode_into_result
  \/ decode_aggregate

SpecClient == InitClient /\ [][NextClient]_vars

(***************************************************************************)
(* Streaming the output of a child process (src/stream.rs).                *)
(***************************************************************************)
\* The bytes a child writes: a letter, and the line feed the decoder of the
\* tests (LinesCodec) splits its input at.
Bytes == {"a", "\n"}
Outputs == UNION {[1..n -> Bytes] : n \in 0..MaxOutputLen}

\* The exit codes of a child that exits; a child may also die of a signal,
\* and then its status has no code.
ExitCodes == 0..2

\* A command: whether the program exists, and what it writes and how it ends.
Commands ==
  {[found |-> TRUE, output |-> o, signal |-> FALSE, code |-> c] : o \in Outputs, c \in ExitCodes}
    \cup {[found |-> TRUE, output |-> o, signal |-> TRUE, code |-> 0] : o \in Outputs}
    \cup {NoCommand}

\* What travels through the channel, and what the decoded stream yields.
Ok(data) == [ok |-> TRUE, data |-> data, text |-> "", args |-> <<>>]
Err(text, args) == [ok |-> FALSE, data |-> <<>>, text |-> text, args |-> args]

\* The error of a failed read of the child's stdout.
ReadError == Err("read failed", <<>>)

\* ExitStatus::success.
success(status) == ~status.signal /\ status.code = 0

\* The error sent for a child that failed.
exit_error(status) ==
  IF status.signal
  THEN Err("streaming process failed", <<>>)
  ELSE Err("streaming process failed: exit code", <<status.code>>)

\* channel(BUFS): a sender may queue BUFS items and one more of its own.
BUFS == 4 * 4

\* send_checked!: the item is queued while the receiving end exists, and the
\* thread goes on as `next`; once the receiving end is gone the thread returns.
send_checked(data, next) ==
  IF receiver = "dropped"
  THEN /\ thread' = "returned"
       /\ UNCHANGED chan
  ELSE /\ Len(chan) < BUFS + 1
       /\ chan' = Append(chan, data)
       /\ thread' = next

\* stream_with_decoder: spawn the child with a piped stdout, start the reader
\* thread and wrap the receiving end in a Streamer; a command that cannot be
\* spawned is an error and no stream.
stream_with_decoder ==
  /\ child = "unspawned"
  /\ IF command.found
     THEN /\ child' = "running"
          /\ todo' = command.output
          /\ thread' = "reading"
          /\ receiver' = "held"
     ELSE /\ child' = "not found"
          /\ UNCHANGED <<todo, thread, receiver>>
  /\ UNCHANGED <<command, pipe, chan, bytes, objects, finished, failures>>
  /\ UNCHANGED <<client, call, norm, sessionVars>>

\* The child writes some of its output to the pipe.
child_write ==
  /\ child = "running"
  /\ todo # <<>>
  /\ \E n \in 1..Len(todo) :
       /\ pipe' = pipe \o SubSeq(todo, 1, n)
       /\ todo' = SubSeq(todo, n + 1, Len(todo))
  /\ UNCHANGED <<command, child, thread, chan, receiver, bytes, objects, finished, failures>>
  /\ UNCHANGED <<client, call, norm, sessionVars>>

\* The child closes its stdout when it has written its output.
child_close ==
  /\ child = "running"
  /\ todo = <<>>
  /\ child' = "closed"
  /\ UNCHANGED <<command, todo, pipe, thread, chan, receiver, bytes, objects, finished, failures>>
  /\ UNCHANGED <<client, call, norm, sessionVars>>

\* The child ends with the status of its command, which closes its stdout if
\* it was still open.
child_exit ==
  /\ child \in {"running", "closed"}
  /\ todo = <<>>
  /\ child' = "exited"
  /\ UNCHANGED <<command, todo, pipe, thread, chan, receiver, bytes, objects, finished, failures>>
  /\ UNCHANGED <<client, call, norm, sessionVars>>

\* The reader thread, arm Ok(n): a read hands over some of the bytes in the
\* pipe, and they are sent on as one buffer.
read_data ==
  /\ thread = "reading"
  /\ pipe # <<>>
  /\ \E n \in 1..Len(pipe) :
       /\ pipe' = SubSeq(pipe, n + 1, Len(pipe))
       /\ send_checked(Ok(SubSeq(pipe, 1, n)), "reading")
  /\ UNCHANGED <<command, child, todo, receiver, bytes, objects, finished, failures>>
  /\ UNCHANGED <<client, call, norm, sessionVars>>

\* The reader thread, arm Ok(0): the pipe is at its end.  try_wait tells
\* whether the child has ended: if so the thread returns, after sending the
\* error of a child that failed; if not the loop reads again.
read_eof_forgets_failure ==
  /\ thread = "reading"
  /\ pipe = <<>>
  /\ child \in {"closed", "exited"}
  /\ IF child = "exited"
     THEN /\ thread' = "returned"
          /\ UNCHANGED chan
     ELSE UNCHANGED <<thread, chan>>
  /\ UNCHANGED <<command, child, todo, pipe, receiver, bytes, objects, finished, failures>>
  /\ UNCHANGED <<client, call, norm, sessionVars>>
read_eof ==
  /\ thread = "reading"
  /\ pipe = <<>>
  /\ child \in {"closed", "exited"}
  /\ IF child = "exited"
     THEN IF ~success(command)
          THEN send_checked(exit_error(command), "returned")
          ELSE /\ thread' = "returned"
               /\ UNCHANGED chan
     ELSE UNCHANGED <<thread, chan>>
  /\ UNCHANGED <<command, child, todo, pipe, receiver, bytes, objects, finished, failures>>
  /\ UNCHANGED <<client, call, norm, sessionVars>>

\* The reader thread, arm Err(err): the error of the read is sent on and the
\* loop reads again.
read_fails ==
  /\ thread = "reading"
  /\ failures < MaxReadErrors
  /\ failures' = failures + 1
  /\ send_checked(ReadError, "reading")
  /\ UNCHANGED <<command, child, todo, pipe, receiver, bytes, objects, finished>>
  /\ UNCHANGED <<client, call, norm, sessionVars>>

\* LinesCodec::decode: the bytes before the first line feed are a line, and
\* the buffer keeps what follows it; without a line feed there is no line yet.
LineFeeds(buf) == {i \in 1..Len(buf) : buf[i] = "\n"}
decode(buf) ==
  IF LineFeeds(buf) = {}
  THEN [some |-> FALSE, object |-> <<>>, rest |-> buf]
  ELSE LET i == CHOOSE i \in LineFeeds(buf) : \A j \in LineFeeds(buf) : i <= j
       IN  [some |-> TRUE, object |-> SubSeq(buf, 1, i - 1),
            rest |-> SubSeq(buf, i + 1, Len(buf))]

\* The loop of Streamer::poll on a buffer and the queue of the channel: an
\* object as soon as one decodes; else the next item of the channel, whose
\* bytes join the buffer and whose error is returned; Ready(None) when the
\* channel is empty and its sender gone, NotReady when it is only empty.
RECURSIVE poll_loop(_, _)
poll_loop(buf, queue) ==
  LET d == decode(buf)
  IN  IF d.some
      THEN [result |-> "object", item |-> Ok(d.object), bytes |-> d.rest, chan |-> queue]
      ELSE IF queue = <<>>
      THEN [result |-> IF thread = "returned" THEN "end" ELSE "not ready",
            item |-> Ok(<<>>), bytes |-> buf, chan |-> queue]
      ELSE IF Head(queue).ok
      THEN poll_loop(buf \o Head(queue).data, Tail(queue))
      ELSE [result |-> "error", item |-> Head(queue), bytes |-> buf, chan |-> Tail(queue)]

\* One poll of the decoded stream by its consumer.
Streamer_poll ==
  /\ receiver = "held"
  /\ ~finished
  /\ LET r == poll_loop(bytes, chan)
     IN  /\ bytes' = r.bytes
         /\ chan' = r.chan
         /\ objects' = IF r.result \in {"object", "error"} THEN Append(objects, r.item)
                       ELSE objects
         /\ finished' = (r.result = "end")
  /\ UNCHANGED <<command, child, todo, pipe, thread, receiver, failures>>
  /\ UNCHANGED <<client, call, norm, sessionVars>>

\* The consumer drops the decoded stream, and the receiving end with it.
drop_stream ==
  /\ receiver = "held"
  /\ receiver' = "dropped"
  /\ chan' = <<>>
  /\ UNCHANGED <<command, child, todo, pipe, thread, bytes, objects, finished, failures>>
  /\ UNCHANGED <<client, call, norm, sessionVars>>

InitProcess ==
  /\ pc = "connect"
  /\ subs = <<>>
  /\ count = 0
  /\ sent = <<>>
  /\ error = NoError
  /\ counted = <<>>
  /\ control = <<>>
  /\ dropped = "none"
  /\ probe = NoProbe
  /\ StreamInit
  /\ norm = NoNorm
  /\ client = NoClient
  /\ call = NoCall
  /\ command \in Commands
  /\ ProcessIdle

NextProcess ==
  \/ stream_with_decoder
  \/ child_write
  \/ child_close
  \/ child_exit
  \/ read_data
  \/ read_eof
  \/ read_fails
  \/ Streamer_poll
  \/ drop_stream

SpecProcess == InitProcess /\ [][NextProcess]_vars

(***************************************************************************)
(* Properties.                                                             *)
(***************************************************************************)
Last(s) == s[Len(s)]
NumberOf(s, x) == Cardinality({k \in DOMAIN s : s[k] = x})
Min(a, b) == IF a < b THEN a ELSE b

\* Positions of the items of the frame the socket handed over last; every
\* earlier frame was in this place when it was the last one.
Received == DOMAIN current
DataPositions == {i \in Received : current[i] \in DataTags}
DisconnectPositions == {i \in Received : current[i] = "disconnected"}
InBuffer(i) == \E k \in DOMAIN messages : messages[k].f = nIn /\ messages[k].i = i
Processed(i) == i \in Received /\ ~InBuffer(i)
YieldedEvents == {k \in DOMAIN yielded : yielded[k].kind = "event"}
YieldedPositions == {yielded[k].i : k \in YieldedEvents}
ClosedItem(i) == [kind |-> "websocket", event |-> "AlreadyClosed", f |-> nIn, i |-> i]

\* C1: once the event stream has processed a `disconnected` status item the
\* stopped flag is set; and once it is set the caller has got exactly one
\* AlreadyClosed error over the whole stream, for a `disconnected` item of
\* the frame read last, it is the last thing the stream yielded, and the
\* stream never waits for the socket again, so no later frame is read.
C1_DisconnectEndsStream ==
  /\ \A i \in DisconnectPositions : Processed(i) => stop
  /\ closed > 0 => stop
  /\ stop =>
       /\ closed = 1
       /\ pc \in {"streaming", "ended"}
       /\ yielded # <<>>
       /\ \E i \in DisconnectPositions : Processed(i) /\ Last(yielded) = ClosedItem(i)

\* A first frame was consumed, the second one held a `disconnected`: the
\* caller got the error for it and then the end of the stream.
C1_Witness ==
  /\ pc = "ended"
  /\ stop
  /\ nIn = 2
  /\ current = <<"disconnected">>
  /\ yielded = <<ClosedItem(1)>>
  /\ closed = 1

\* C2: the events yielded are exactly the data items transmitted before the
\* first `disconnected` status item or the end of the transport.  Frame by
\* frame: no item of the frame is yielded twice, none that was transmitted
\* after a `disconnected` item and, when the stream is done with the frame,
\* none before it is missing.
C2_ExactlyTheDataBeforeDisconnect ==
  LET expected == {i \in DataPositions : \A d \in DisconnectPositions : i < d}
  IN /\ Cardinality(YieldedPositions) = Cardinality(YieldedEvents)
     /\ YieldedPositions \subseteq expected
     /\ pc \in {"reading", "ended"} => YieldedPositions = expected

\* C11: no data item placed after a `disconnected` status item in the array
\* of its frame is ever yielded to the caller.
C11_NothingAfterDisconnectInFrame ==
  \A k \in YieldedEvents : \A d \in DisconnectPositions : yielded[k].i < d

\* What the caller got for items of the frame read last.
YieldedForItems == {k \in DOMAIN yielded : yielded[k].i > 0}

\* C12: during streaming a status item with a code other than `disconnected`
\* yields nothing and does not set the stopped flag: whatever the caller got
\* for an item of a frame is an event for a data item, carrying that item's
\* kind, or the AlreadyClosed error for a `disconnected` item; the stopped
\* flag is unset while the frame holds no `disconnected` item; and once the
\* stream is done with such a frame every data item of it was delivered and
\* the stream goes on to wait for the next frame.
C12_OtherStatusDroppedSilently ==
  /\ \A k \in YieldedForItems :
       /\ yielded[k].i \in Received
       /\ yielded[k].f = nIn
       /\ current[yielded[k].i] # "status"
       /\ yielded[k].kind = "event" =>
            current[yielded[k].i] \in DataTags /\ yielded[k].event = current[yielded[k].i]
       /\ yielded[k].kind # "event" =>
            current[yielded[k].i] = "disconnected" /\ yielded[k] = ClosedItem(yielded[k].i)
  /\ DisconnectPositions = {} => ~stop
  /\ (DisconnectPositions = {} /\ messages = <<>> /\ pc \in {"reading", "ended"}) =>
       YieldedPositions = DataPositions

\* The second frame held a trade followed by a status other than
\* `disconnected`: the trade was delivered and the stream waits for more.
C12_Witness ==
  /\ pc = "reading"
  /\ nIn = 2
  /\ current = <<"T", "status">>
  /\ Len(yielded) = 1
  /\ yielded[1].kind = "event" /\ yielded[1].event = "T" /\ yielded[1].i = 1
  /\ ~stop

\* C13: a frame that fails to decode reaches the caller as exactly one
\* decode-error item and does not end the stream: after the step that took
\* it in the caller has got that one item for it, the stopped flag is unset
\* and nothing is buffered; the caller's next poll waits for the socket
\* again, and what the socket hands over then is taken in.
C13_DecodeErrorDoesNotEndStream ==
  [][/\ current' \in Undecodable =>
          /\ yielded' = <<DecodeErrorItem(nIn')>>
          /\ ~stop'
          /\ messages' = <<>>
          /\ pc' \in {"streaming", "reading", "ended"}
     /\ (current \in Undecodable /\ pc = "streaming") =>
          pc' = "reading" /\ yielded' = yielded
     /\ (current \in Undecodable /\ pc = "reading" /\ pc' # "ended") =>
          nIn' = nIn + 1 /\ previous'.kind = "undecodable"
    ]_vars

\* After a frame that failed to decode the stream read a frame holding a
\* trade and delivered it.
C13_Witness ==
  /\ previous.kind = "undecodable"
  /\ current = <<"T">>
  /\ Len(yielded) = 1
  /\ yielded[1].kind = "event" /\ yielded[1].event = "T"
  /\ ~stop

\* C14: a transport error of the socket is fatal: the caller gets it as an
\* error item, and after it the stream yields nothing more, neither from
\* the buffer nor for anything the socket hands over later.
C14_TransportErrorIsFatal ==
  /\ current = <<"error">> => yielded = <<TransportErrorItem(nIn)>>
  /\ previous.kind = "error" => yielded = <<>>

\* C15: the event stream waits for the socket only with an empty buffer, so
\* when the socket yields end-of-stream the buffer is empty and every data
\* item of the frames received before was yielded; the step that takes the
\* end of the socket ends the event stream and yields nothing.
C15_TransportEndEndsStream ==
  [][/\ pc' = "reading" => messages' = <<>> /\ ~stop' /\ YieldedPositions' = DataPositions'
     /\ (pc = "reading" /\ pc' = "ended") =>
          /\ messages = <<>>
          /\ YieldedPositions = DataPositions
          /\ UNCHANGED <<yielded, messages, stop, nIn, current>>
     /\ (pc' = "ended" /\ ~stop') => pc = "reading"
    ]_vars

\* The socket ended after a frame of two quotes: both were delivered before
\* the event stream ended.
C15_Witness ==
  /\ pc = "ended"
  /\ ~stop
  /\ current = <<"Q", "Q">>
  /\ Len(yielded) = 2
  /\ YieldedPositions = {1, 2}
  /\ messages = <<>>

\* What the caller got in the step: all of it when the step read the
\* socket, else what was added.
JustYielded ==
  IF nIn' = nIn THEN SubSeq(yielded', Len(yielded) + 1, Len(yielded')) ELSE yielded'

\* C16: every event of a frame is yielded before every event of a frame
\* received later.  Whatever a step yields belongs to the frame read last,
\* frames are numbered upwards, and the step that takes in a new frame finds
\* the buffer empty, so nothing of an older frame is left to be yielded in
\* between or afterwards.
C16_FramesInOrder ==
  [][/\ \A k \in DOMAIN JustYielded : JustYielded[k].f = nIn'
     /\ nIn' >= nIn
     /\ nIn' # nIn => nIn' = nIn + 1 /\ messages = <<>>
     /\ \A k \in DOMAIN messages' : messages'[k].f = nIn'
    ]_vars

\* The caller got two events of the first frame and then both events of the
\* second.
C16_Witness ==
  /\ nIn = 2
  /\ previous = [kind |-> "frame", cause |-> "-", events |-> 2]
  /\ Len(current) = 2
  /\ YieldedPositions = {1, 2}
  /\ \A k \in DOMAIN yielded : yielded[k].f = 2

\* C17: within a frame the data items are yielded in the reverse of their
\* order in the frame's array.  What is still buffered is a front part of
\* the array, the data items behind it were all yielded, and what the caller
\* got for the frame comes in descending array position.
C17_ReverseOrderWithinFrame ==
  /\ \A k \in DOMAIN messages : messages[k].i = k /\ messages[k].f = nIn
  /\ YieldedPositions = {i \in DataPositions : i > Len(messages)}
  /\ \A j, k \in YieldedForItems : j < k => yielded[j].i > yielded[k].i

\* For a frame [q1, q2] of two quotes the caller got q2 and then q1.
C17_Witness ==
  /\ current = <<"Q", "Q">>
  /\ Len(yielded) = 2
  /\ yielded[1].kind = "event" /\ yielded[1].i = 2
  /\ yielded[2].kind = "event" /\ yielded[2].i = 1

\* C18: the event stream holds at most one decoded frame at a time.  It
\* waits for the socket only with an empty buffer, the step that takes in a
\* frame starts from an empty buffer, and the buffer holds items of one
\* frame only, the one read last, never more of them than that frame has.
C18_OneFrameBuffered ==
  [][/\ pc' = "reading" => messages' = <<>>
     /\ nIn' # nIn => pc = "reading" /\ messages = <<>>
     /\ \A k \in DOMAIN messages' : messages'[k].f = nIn'
     /\ Len(messages') <= Len(current')
     /\ Len(messages') > 0 => ~(current' \in Undecodable \cup {<<"error">>})
    ]_vars

\* Of the second frame one event was delivered and one item is still
\* buffered; nothing of the first frame is.
C18_Witness ==
  /\ nIn = 2
  /\ previous.kind = "frame"
  /\ Len(current) = 2
  /\ Len(messages) = 1
  /\ messages[1].f = 2 /\ messages[1].i = 1
  /\ Len(yielded) = 1
  /\ pc = "streaming"

\* C19: normalize is idempotent: normalizing what normalize returned, taken
\* in any order, returns the same set.
C19_NormalizeIdempotent ==
  norm.phase = "twice" => norm.twice = norm.once

\* The first pass removed two symbols a wildcard covers, the second pass
\* changed nothing.
C19_Witness ==
  /\ norm.phase = "twice"
  /\ norm.input = <<[kind |-> "Trades", stock |-> "MSFT"], All("Trades"),
                    [kind |-> "Trades", stock |-> "SPY"]>>
  /\ norm.once = {All("Trades")}
  /\ norm.twice = norm.once

\* C20: if the collection holds the wildcard subscription of a kind, then
\* the only subscription of that kind in the normalized set is the wildcard.
C20_WildcardAbsorbsKind ==
  norm.phase \in {"once", "twice"} =>
    \A kind \in {"SecondAggregates", "MinuteAggregates", "Trades", "Quotes"} :
      All(kind) \in Range(norm.input) =>
        {sub \in norm.once : sub.kind = kind} = {All(kind)}

\* [Trades(*), Trades(MSFT), Trades(*)] became {Trades(*)}.
C20_Witness ==
  /\ norm.phase = "once"
  /\ norm.input = <<All("Trades"), [kind |-> "Trades", stock |-> "MSFT"], All("Trades")>>
  /\ norm.once = {All("Trades")}

\* C21: the kinds are normalized independently: the subscriptions of a
\* kind in normalize(S) are what normalize returns for the subscriptions of
\* that kind in S alone, so they depend on nothing else in S.
C21_KindsIndependent ==
  norm.phase = "kind" =>
    \A kind \in Kinds :
      norm.other = SelectSeq(norm.input, LAMBDA sub : sub.kind = kind) =>
        OfKind(norm.once, kind) = norm.twice

\* A wildcard of Trades next to a symbol of Quotes: the quote subscription
\* is what it is without the trades.
C21_Witness ==
  /\ norm.phase = "kind"
  /\ norm.input = <<All("Trades"), [kind |-> "Quotes", stock |-> "MSFT"]>>
  /\ norm.other = <<[kind |-> "Quotes", stock |-> "MSFT"]>>
  /\ norm.twice = {[kind |-> "Quotes", stock |-> "MSFT"]}
  /\ norm.once = {All("Trades"), [kind |-> "Quotes", stock |-> "MSFT"]}

\* C22: normalize returns a subset of the elements of S; for a kind whose
\* wildcard is not in S it returns exactly the distinct subscriptions of
\* that kind in S; and it returns the same set for the same elements in
\* another order or with another multiplicity.
C22_DeduplicatesOnly ==
  /\ norm.phase \in {"once", "twice", "kind", "shuffled"} =>
       /\ norm.once \subseteq Range(norm.input)
       /\ \A kind \in Kinds :
            ~(All(kind) \in Range(norm.input)) =>
              OfKind(norm.once, kind) = OfKind(Range(norm.input), kind)
  /\ norm.phase = "shuffled" =>
       Range(norm.other) = Range(norm.input) /\ norm.twice = norm.once

\* Two symbols of Quotes, one of them given twice, come back as the two;
\* the reverse order with a repetition gives the same set.
C22_Witness ==
  /\ norm.phase = "shuffled"
  /\ norm.input = <<[kind |-> "Quotes", stock |-> "SPY"], [kind |-> "Quotes", stock |-> "MSFT"],
                    [kind |-> "Quotes", stock |-> "SPY"]>>
  /\ norm.other = <<[kind |-> "Quotes", stock |-> "MSFT"], [kind |-> "Quotes", stock |-> "SPY"],
                    [kind |-> "Quotes", stock |-> "MSFT"]>>
  /\ norm.once = {[kind |-> "Quotes", stock |-> "SPY"], [kind |-> "Quotes", stock |-> "MSFT"]}
  /\ norm.twice = norm.once

\* The wire prefixes of the kinds.
Letter == [SecondAggregates |-> "A", MinuteAggregates |-> "AM", Trades |-> "T", Quotes |-> "Q"]

\* The parts of a string between its commas.
RECURSIVE Split(_)
Split(string) ==
  IF \A k \in DOMAIN string : string[k] # ","
  THEN <<string>>
  ELSE LET k == CHOOSE j \in DOMAIN string :
                  string[j] = "," /\ \A h \in 1..(j - 1) : string[h] # ","
       IN <<SubSeq(string, 1, k - 1)>> \o Split(SubSeq(string, k + 1, Len(string)))

\* C23: the subscribe request built for a non-empty sequence of
\* subscriptions has the action `subscribe` and as parameter one token per
\* subscription, the kind's prefix, '.', and the symbol or '*', in iteration
\* order with ',' between them; the count returned with it is the number of
\* tokens.
C23_SubscribeRequestTokens ==
  (norm.phase = "encoded" /\ norm.input # <<>>) =>
    /\ norm.built.ok
    /\ norm.built.request.action = "subscribe"
    /\ Split(norm.built.request.params) =
         [i \in 1..Len(norm.input) |->
            <<Letter[norm.input[i].kind], ".", norm.input[i].stock>>]
    /\ norm.built.count = Len(Split(norm.built.request.params))
    /\ norm.built.count = Len(norm.input)

\* Trades(MSFT), Quotes(*) give "T.MSFT,Q.*" and the count 2.
C23_Witness ==
  /\ norm.phase = "encoded"
  /\ norm.input = <<[kind |-> "Trades", stock |-> "MSFT"], All("Quotes")>>
  /\ norm.built.request = Request("subscribe", <<"T", ".", "MSFT", ",", "Q", ".", "*">>)
  /\ norm.built.count = 2

\* C24: for an envelope with the status OK or DELAYED into_result yields
\* success with the results the envelope carries, whichever of the two the
\* status is.
C24_OkAndDelayedYieldResults ==
  (call.op = "into_result" /\ call.envelope.status \in {"OK", "DELAYED"}) =>
    /\ call.result.ok
    /\ call.result.data = call.envelope.results
    /\ call.result.err = NoError

\* A delayed envelope gave its results.
C24_Witness ==
  /\ call.op = "into_result"
  /\ call.envelope = [status |-> "DELAYED", results |-> "r2"]
  /\ call.result.ok
  /\ call.result.data = "r2"

\* C25: for any other status into_result yields an error whose
\* message is the status string the server reported.
C25_ErrorCarriesStatus ==
  (call.op = "into_result" /\ ~(call.envelope.status \in {"OK", "DELAYED"})) =>
    /\ ~call.result.ok
    /\ call.result.err.text = <<call.envelope.status>>

\* The pairs of a query string, the parts between its '&'.
RECURSIVE Pairs(_)
Pairs(string) ==
  IF \A k \in DOMAIN string : string[k] # "&"
  THEN <<string>>
  ELSE LET k == CHOOSE j \in DOMAIN string :
                  string[j] = "&" /\ \A h \in 1..(j - 1) : string[h] # "&"
       IN <<SubSeq(string, 1, k - 1)>> \o Pairs(SubSeq(string, k + 1, Len(string)))

\* What a server reads from a percent-encoded path and from a form-encoded
\* value.
DecodedPath(path) == [k \in DOMAIN path |-> IF path[k] = "%3F" THEN "?" ELSE path[k]]
DecodedValue(value) ==
  [k \in DOMAIN value |-> CASE value[k] = "%26" -> "&"
                            [] value[k] = "+" -> " "
                            [] OTHER -> value[k]]
OwnPairs(input) == IF input.query.some THEN Pairs(input.query.string) ELSE <<>>

\* C26: the URL of a request is the client's API URL with the path of the
\* endpoint in place of its own, and with a query that holds the pairs of
\* the endpoint's query (none when it has no query, whatever the query of
\* the API URL) followed by one last pair apiKey=<credential>.
C26_RequestUrl ==
  call.op = "issue" =>
    LET pairs == Pairs(call.url.query.string)
        own == OwnPairs(call.input)
    IN /\ call.url.scheme = client.api_url.scheme
       /\ call.url.host = client.api_url.host
       /\ DecodedPath(call.url.path) = call.input.path
       /\ call.url.query.some
       /\ Len(pairs) = Len(own) + 1
       /\ SubSeq(pairs, 1, Len(own)) = own
       /\ SubSeq(Last(pairs), 1, 2) = <<"apiKey", "=">>
       /\ DecodedValue(SubSeq(Last(pairs), 3, Len(Last(pairs)))) = client.api_key

\* A request for ticker news by a client whose API URL has a path and a
\* query of its own and whose credential holds a '&'.
C26_Witness ==
  /\ call.op = "issue"
  /\ client.api_url = Url("https", "api.polygon.io", <<"/", "base">>, Some(<<"x=1">>))
  /\ client.api_key = <<"K", "&">>
  /\ call.input.query.some
  /\ call.url = Url("https", "api.polygon.io", <<"/", "v1/meta/symbols/", "A", "/news">>,
                    Some(<<"perpage=1", "&", "page=2", "&", "apiKey", "=", "K", "%26">>))

\* C27: the session a subscribe call starts gets the client's stream URL
\* with the scheme wss and the path /stocks, the client's API URL and the
\* client's credential; no call changes what the client stores.
C27_SessionUrlFromCopy ==
  [][/\ client' = client
     /\ (call'.op = "subscribe" /\ call'.ok) =>
          /\ call'.session.stream_url =
               Url("wss", client.stream_url.host, <<"/", "stocks">>, client.stream_url.query)
          /\ call'.session.api_url = client.api_url
          /\ call'.session.api_key = client.api_key]_vars

\* A second call, a subscribe by a client configured with ws://.../feed.
C27_Witness ==
  /\ call.op = "subscribe"
  /\ call.n = 2
  /\ call.ok
  /\ client.stream_url = Url("ws", "socket.polygon.io", <<"/", "feed">>, None)
  /\ call.session.stream_url = Url("wss", "socket.polygon.io", <<"/", "stocks">>, None)
  /\ call.session.api_key = client.api_key

\* C28: an item with an unknown "ev" tag is skipped without an error and
\* the other items of its frame are processed.  In a handshake phase: a
\* frame whose items are all messages the client knows, but for items with
\* an unknown tag, does not fail to decode; when it holds no status item
\* the handshake goes on waiting.
C28_UnknownTagSkipped ==
  LET items == probe.frame.items
  IN (/\ probe.set /\ probe.fed /\ probe.frame.valid
      /\ \E k \in DOMAIN items : items[k].ev = "X"
      /\ \A k \in DOMAIN items : Message(items[k]) \/ items[k].ev = "X") =>
       /\ error # JsonError
       /\ (\A k \in DOMAIN items : ~IsStatus(items[k])) =>
            pc = probe.phase /\ error = NoError

\* C29: a status item with an unknown code received by the event stream
\* ends the stream: after the frame that held it no event is delivered.
C29_UnknownCodeEndsStream ==
  previous.cause = "unknown code" =>
    \A k \in DOMAIN yielded : yielded[k].kind # "event"

\* C30: whatever fails before the streaming phase, stream() returns the
\* error and no event stream, and the handshake ends there.  Step by step:
\* an error is set exactly when the handshake has failed; the step that
\* fails writes no frame, and so does a Close frame or an empty subscription
\* set; after the failure nothing happens any more, in particular no frame
\* is written and the streaming phase is not entered; and the streaming
\* phase is entered only without an error.
C30_FailureAbortsHandshake ==
  [][/\ pc # "failed"
     /\ (error' # NoError) <=> (pc' = "failed")
     /\ pc' = "failed" =>
          /\ sent' = sent
          /\ UNCHANGED streamVars
     /\ (control' # control /\ Last(control').typ = "Close") =>
          pc' = "failed" /\ error' = ClosedUnexpectedly
     /\ (pc = "send_subscribe" /\ subs = <<>>) =>
          pc' = "failed" /\ error' = NoSubscriptions
     /\ pc' = "streaming" => error' = NoError /\ subs # <<>>
    ]_vars

\* A session without subscriptions failed when it was to subscribe, after
\* the auth request and nothing else was written.
C30_Witness ==
  /\ pc = "failed"
  /\ subs = <<>>
  /\ error = NoSubscriptions
  /\ sent = <<AuthRequest>>
  /\ nIn = 0 /\ yielded = <<>>

Requests == SelectSeq(sent, LAMBDA m : m.typ = "Text")
IsPrefix(s, t) == Len(s) <= Len(t) /\ \A k \in DOMAIN s : s[k] = t[k]
BothRequests == <<AuthRequest, SubscribeRequest(make_subscribe_request(subs).request)>>
AllStatuses == <<"connected", "auth_success">> \o Repeat("success", Len(subs))

\* C3: the phases come in order.  The client writes the auth request only
\* after a `connected` status was counted, the subscribe request only after
\* an `auth_success` status was counted, and stream() returns the event
\* stream only after the subscribe phase counted a `success` per
\* subscription; no request is written twice or out of order and no status
\* is counted for a phase other than the running one.
C3_PhasesInOrder ==
  /\ IsPrefix(Requests, BothRequests)
  /\ IsPrefix(counted, AllStatuses)
  /\ Len(Requests) >= 1 => Len(counted) >= 1
  /\ Len(Requests) >= 2 => Len(counted) >= 2
  /\ Len(counted) >= 2 => Len(Requests) >= 1
  /\ Len(counted) >= 3 => Len(Requests) = 2
  /\ pc = "streaming" => Requests = BothRequests /\ counted = AllStatuses
  /\ pc \in {"connect", "await_connected"} => Requests = <<>>
  /\ pc \in {"send_auth", "await_auth", "send_subscribe"} => Len(Requests) <= 1

C3_Witness ==
  /\ pc = "streaming"
  /\ Len(subs) = 2
  /\ Len(sent) = 2

\* The number of tokens of the subscribe request the client wrote.
TokensSent == NumberOf(Requests[2].body.params, ",") + 1

\* C4: the subscribe phase is over exactly when as many `success` statuses
\* were counted as the subscribe request holds tokens: while it waits the
\* pending count is the number of tokens minus the `success` statuses counted
\* and is positive, and stream() has returned the event stream if and only
\* if all of them were counted.
C4_SubscribeCountsTokens ==
  Len(Requests) = 2 =>
    /\ TokensSent = Len(subs)
    /\ NumberOf(counted, "success") <= TokensSent
    /\ pc = "await_subscribe" =>
         count > 0 /\ count = TokensSent - NumberOf(counted, "success")
    /\ pc \in {"streaming", "reading", "ended"} <=> NumberOf(counted, "success") = TokensSent

\* One of two acknowledgements is in, the phase still waits.
C4_Witness ==
  /\ pc = "await_subscribe"
  /\ Len(subs) = 2
  /\ count = 1
  /\ NumberOf(counted, "success") = 1

\* C5: a frame of data items only that arrives while the handshake waits is
\* passed over: the step changes neither the phase nor the pending count,
\* raises no error and writes nothing; and in every step of an await loop
\* that does not fail the pending count goes down by exactly the number of
\* statuses counted, so data items never count.
C5_DataDroppedDuringHandshake ==
  [][/\ dropped' # dropped =>
          /\ pc' = pc
          /\ count' = count
          /\ error' = NoError
          /\ sent' = sent
          /\ counted' = counted
     /\ (pc \in AwaitStates /\ pc' # "failed") =>
          count' = count - (Len(counted') - Len(counted))
    ]_vars

\* A trade frame came in before the subscribe acknowledgement and the
\* handshake succeeded.
C5_Witness ==
  /\ pc = "streaming"
  /\ dropped = "await_subscribe"

\* The first status item of a frame (0 when it holds none).
FirstStatus(items) ==
  IF \E k \in DOMAIN items : IsStatus(items[k])
  THEN CHOOSE k \in DOMAIN items : IsStatus(items[k]) /\ \A j \in 1..k - 1 : ~IsStatus(items[j])
  ELSE 0

Decodable(frame) ==
  frame.valid /\ \A k \in DOMAIN frame.items :
                    frame.items[k].ev # "X" /\ frame.items[k].status # "bogus"

NotSuccessful(operation, message) == StrError(<<operation, " not successful: ", message>>)

\* The frame a lone await iteration of the given phase got, once it was
\* processed.
Fed(phase) == probe.set /\ probe.fed /\ probe.phase = phase /\ Decodable(probe.frame)

\* C6: when the authentication phase meets an `auth_failed` status the
\* handshake fails with the error "authentication not successful: " followed
\* by the server's message; no subscribe request is written and no event
\* stream is returned.
C6_AuthFailed ==
  LET items == probe.frame.items
      k == FirstStatus(items)
  IN (Fed("await_auth") /\ k > 0 /\ items[k].status = "auth_failed") =>
       /\ pc = "failed"
       /\ error.kind = "Str"
       /\ SubSeq(error.text, 1, 2) = <<"authentication", " not successful: ">>
       /\ error.text[3] = items[k].message
       /\ sent = <<AuthRequest>>

C6_Witness ==
  /\ Fed("await_auth")
  /\ Len(probe.frame.items) = 1
  /\ probe.frame.items[1].status = "auth_failed"
  /\ probe.frame.items[1].message = "m2"
  /\ pc = "failed"

\* The errors an `auth_failed` status can produce.
AuthenticationErrors == {NotSuccessful("authentication", m) : m \in Msgs}

C8_ConnectPhase ==
  LET items == probe.frame.items
      k == FirstStatus(items)
  IN Fed("await_connected") =>
       /\ k = 0 => pc = "await_connected" /\ count = 1 /\ error = NoError /\ sent = <<>>
       /\ (k > 0 /\ items[k].status = "connected") =>
            /\ probe.after = 0
            /\ probe.err = NoError
            /\ pc \in {"send_auth", "await_auth", "failed"}
            /\ pc = "await_auth" <=> sent = <<AuthRequest>>
            /\ pc = "failed" => error = WebSocketError("send") /\ sent = <<>>
       /\ (k > 0 /\ items[k].status # "connected") =>
            /\ pc = "failed"
            /\ error = NotSuccessful("connection", items[k].message)
            /\ sent = <<>>

\* A trade in front of the `connected` status was discarded and the auth
\* request went out.
C8_Witness ==
  /\ Fed("await_connected")
  /\ Len(probe.frame.items) = 2
  /\ probe.frame.items[1].ev = "T"
  /\ probe.frame.items[2].status = "connected"
  /\ pc = "await_auth"

\* C9: in an await loop a ping is answered, in the same step, with a pong of
\* the same payload and leaves the pending count alone (the handshake fails
\* if the pong cannot be written); a pong changes nothing and writes nothing;
\* a close frame fails the handshake with "websocket connection closed
\* unexpectedly".
C9_PingPongClose ==
  [][control' # control =>
       LET c == Last(control') IN
       /\ count' = count
       /\ counted' = counted
       /\ c.typ = "Ping" =>
            \/ pc' = pc /\ error' = NoError /\ sent' = Append(sent, [typ |-> "Pong", body |-> c.body])
            \/ pc' = "failed" /\ error' = WebSocketError("send") /\ sent' = sent
       /\ c.typ = "Pong" => pc' = pc /\ error' = NoError /\ sent' = sent
       /\ c.typ = "Close" => pc' = "failed" /\ error' = ClosedUnexpectedly /\ sent' = sent
    ]_vars

\* A ping was answered while the subscribe phase waits.
C9_Witness ==
  /\ pc = "await_subscribe"
  /\ control # <<>>
  /\ Last(control).typ = "Ping"
  /\ Last(sent) = [typ |-> "Pong", body |-> Last(control).body]

\* The expected-code and the other status items of a frame.
Hits(items, expected) == {k \in DOMAIN items : IsStatus(items[k]) /\ items[k].status = expected}
Misses(items, expected) == {k \in DOMAIN items : IsStatus(items[k]) /\ items[k].status # expected}

\* The item at which a pending count of c is used up (the last item when the
\* frame holds fewer than c statuses with the expected code).
Completion(items, expected, c) ==
  LET H == Hits(items, expected) IN
  IF Cardinality(H) >= c
  THEN CHOOSE k \in H : Cardinality({j \in H : j <= k}) = c
  ELSE Len(items)

\* C10: one frame can satisfy several pending expectations.  When the items
\* of a frame up to the point of completion hold k statuses with the expected
\* code and no other status, the iteration does not fail, the pending count c
\* becomes c - min(k, c), and the items are examined up to the one that
\* brings the count to zero and no further.
C10_CountDownWithinFrame ==
  \A phase \in AwaitStates :
    LET items == probe.frame.items
        expected == Expected(phase)
        c == probe.before
        k == Cardinality(Hits(items, expected))
        done == Completion(items, expected, c)
    IN (Fed(phase) /\ \A m \in Misses(items, expected) : m > done) =>
         /\ probe.err = NoError
         /\ probe.after = c - Min(k, c)
         /\ probe.examined = done

\* Two acknowledgements in one frame used up a pending count of two.
C10_Witness ==
  /\ Fed("await_subscribe")
  /\ probe.before = 2
  /\ probe.after = 0
  /\ probe.examined = 2
  /\ pc = "streaming"

\* C32: with no subscriptions the handshake still waits for `connected` and
\* authenticates: the auth request is the only request ever written, no
\* subscribe request; an authentication error is returned when only
\* `connected` was counted; the error for the missing subscriptions comes
\* after `connected` and `auth_success` were counted; and the session never
\* waits for subscription statuses nor streams.
C32_EmptySubscriptions ==
  subs = <<>> =>
    /\ IsPrefix(Requests, <<AuthRequest>>)
    /\ pc \notin {"await_subscribe", "streaming"}
    /\ pc = "send_subscribe" => counted = <<"connected", "auth_success">>
    /\ error \in AuthenticationErrors =>
         pc = "failed" /\ counted = <<"connected">> /\ Requests = <<AuthRequest>>
    /\ error = NoSubscriptions =>
         /\ pc = "failed"
         /\ counted = <<"connected", "auth_success">>
         /\ Requests = <<AuthRequest>>
    /\ error.kind = "WebSocket" /\ counted = <<"connected", "auth_success">> =>
         error = NoSubscriptions

\* A session without subscriptions whose authentication was refused.
C32_Witness ==
  /\ subs = <<>>
  /\ pc = "failed"
  /\ error = NotSuccessful("authentication", "m1")
  /\ sent = <<AuthRequest>>
  /\ counted = <<"connected">>

\* The error of the assertion at the head of check_responses.
AssertionFailed == StrError(<<"assertion failed: count > 0">>)

\* The count a phase's await_responses was called with.
Given(phase) == IF phase = "await_subscribe" THEN Len(subs) ELSE 1

\* C33: check_responses is only ever called with a positive count: while a
\* phase waits the pending count is positive, and its assertion never
\* fails.  The pending count never goes below zero nor above the count the
\* phase started with, and it is that count less the statuses with the
\* expected code counted in the phase.
C33_CountInRange ==
  /\ count >= 0
  /\ error # AssertionFailed
  /\ pc \in AwaitStates =>
       /\ count > 0
       /\ count <= Given(pc)
       /\ count = Given(pc) - NumberOf(counted, Expected(pc))
  /\ pc \in {"send_auth", "send_subscribe", "streaming"} => count = 0
  /\ pc = "failed" => count <= Len(subs) \/ count <= 1

\* Two subscriptions were acknowledged and the pending count ended at zero.
C33_Witness ==
  /\ pc = "streaming"
  /\ count = 0
  /\ Len(subs) = 2
  /\ NumberOf(counted, "success") = 2
  /\ error = NoError

\* C34: what is left of a frame once the pending count of a phase reached
\* zero is not looked at.  When a frame uses up the count of the phase and
\* holds further status items behind that point, whatever their codes, the
\* iteration ends without an error at the item that used up the count,
\* exactly the count given was counted for the phase and nothing for a
\* later one, and the phase that follows waits with its full count.
C34_RestOfFrameIgnored ==
  \A phase \in AwaitStates :
    LET items == probe.frame.items
        expected == Expected(phase)
        c == probe.before
        done == Completion(items, expected, c)
        rest == {k \in DOMAIN items : k > done /\ IsStatus(items[k])}
    IN (/\ Fed(phase)
        /\ Cardinality(Hits(items, expected)) >= c
        /\ \A m \in Misses(items, expected) : m > done
        /\ rest # {}) =>
         /\ probe.err = NoError
         /\ probe.examined = done
         /\ probe.after = 0
         /\ error \in {NoError, WebSocketError("send"), NoSubscriptions}
         /\ counted = CountedUpTo(phase, subs, c) \o Repeat(expected, c)
         /\ pc \in AwaitStates => pc # phase /\ count = Given(pc) /\ count > 0

\* The frame [connected, auth_success] ended the connect phase only: the
\* auth request went out and the authentication phase waits.
C34_Witness ==
  /\ Fed("await_connected")
  /\ Len(probe.frame.items) = 2
  /\ probe.frame.items[1].status = "connected"
  /\ probe.frame.items[2].status = "auth_success"
  /\ pc = "await_auth"
  /\ count = 1
  /\ counted = <<"connected">>

\* C35: when the server sends `connected`, after the auth request
\* `auth_success`, and after the subscribe request a `success` per
\* subscription, each in a frame of its own, with finitely many data frames,
\* pings and pongs in between, and the transport neither closes nor fails,
\* the handshake completes in the end: stream() returns the event stream.
C35_HandshakeCompletes == <>(pc = "streaming" /\ error = NoError)

\* The handshake completed although data frames and a ping came in between.
C35_Witness ==
  /\ pc = "streaming"
  /\ error = NoError
  /\ counted = AllStatuses
  /\ dropped # "none"
  /\ control # <<>>

\* C36: when the socket yields its end or an error while a phase of the
\* handshake waits, the handshake has failed, with "websocket connection
\* closed unexpectedly" for the end and with the socket's error for the
\* error, and with the statuses of the phase still pending; and stream()
\* returns the event stream only when no status is pending.
C36_TransportEndFailsHandshake ==
  /\ (control # <<>> /\ Last(control).typ = "End") =>
       /\ pc = "failed"
       /\ error = ClosedUnexpectedly
       /\ count > 0
       /\ counted # AllStatuses
  /\ (control # <<>> /\ Last(control).typ = "Error") =>
       /\ pc = "failed"
       /\ error = WebSocketError("transport")
       /\ count > 0
       /\ counted # AllStatuses
  /\ pc = "streaming" =>
       /\ count = 0
       /\ counted = AllStatuses
       /\ \A k \in DOMAIN control : control[k].typ \in {"Ping", "Pong"}

\* The socket ended while one of two subscriptions was still to be
\* acknowledged.
C36_Witness ==
  /\ pc = "failed"
  /\ error = ClosedUnexpectedly
  /\ control # <<>>
  /\ Last(control).typ = "End"
  /\ Len(subs) = 2
  /\ count = 1
  /\ NumberOf(counted, "success") = 1

\* C37: a frame that does not decode as an array of items aborts a
\* handshake that waits, whatever the phase and the pending count, with a
\* JSON error and with nothing counted or written; the event stream that
\* reads the same frame hands the caller one decode-error item for it, does
\* not stop, and waits for the socket again on the next poll.
C37_UndecodableFrame ==
  (probe.set /\ probe.fed /\ ~Decodable(probe.frame)) =>
    /\ probe.phase \in AwaitStates =>
         /\ pc = "failed"
         /\ error = JsonError
         /\ probe.err = JsonError
         /\ count = probe.before
         /\ sent = SentUpTo(probe.phase, subs)
         /\ counted = CountedUpTo(probe.phase, subs, probe.before)
    /\ probe.phase = "streaming" =>
         /\ error = NoError
         /\ ~stop
         /\ messages = <<>>
         /\ yielded = <<DecodeErrorItem(1)>>
         /\ pc \in {"streaming", "reading", "ended"}
         /\ pc = "ended" => closed = 0

\* The event stream got a frame with a status of an unknown code, handed
\* over the error and waits for the socket.
C37_Witness ==
  /\ probe.set /\ probe.fed
  /\ probe.phase = "streaming"
  /\ Len(probe.frame.items) = 1
  /\ probe.frame.items[1].status = "bogus"
  /\ yielded = <<DecodeErrorItem(1)>>
  /\ pc = "reading"

\* C38: the stopped flag of the event stream goes up only in a step that
\* processes a `disconnected` status item, the one that hands the caller
\* the AlreadyClosed error for it; it never goes down; and once it is up a
\* poll ends the stream and nothing else happens: no frame is read, the
\* buffer is not touched and nothing is yielded.
C38_StoppedFlag ==
  [][/\ (~stop /\ stop') =>
          /\ closed' = closed + 1
          /\ yielded' # <<>>
          /\ (\E i \in DisconnectPositions :
                Processed(i) /\ Last(yielded) = ClosedItem(i))'
     /\ (closed' # closed \/ stop) => stop'
     /\ stop =>
          /\ pc = "streaming" /\ pc' = "ended"
          /\ UNCHANGED <<messages, yielded, nIn, current, closed>>
    ]_vars

\* The stream ended on a `disconnected` with an item of the frame still in
\* the buffer.
C38_Witness ==
  /\ stop
  /\ pc = "ended"
  /\ Len(messages) = 1
  /\ messages[1].f = nIn
  /\ closed = 1

\* The lines of an output, read off the positions of its line feeds: the
\* k-th line lies between the (k-1)-th and the k-th line feed.  What follows
\* the last line feed is no line.
FeedsOf(output) == {i \in 1..Len(output) : output[i] = "\n"}
NthFeed(output, k) ==
  IF k = 0 THEN 0
  ELSE CHOOSE i \in FeedsOf(output) : Cardinality({j \in FeedsOf(output) : j <= i}) = k
LinesOf(output) ==
  [k \in 1..Cardinality(FeedsOf(output)) |->
     SubSeq(output, NthFeed(output, k - 1) + 1, NthFeed(output, k) - 1)]
IsObject(item) == item.ok
IsError(item) == ~item.ok
IsExitError(item) == ~item.ok /\ item.text # "read failed"
YieldedLines ==
  LET got == SelectSeq(objects, IsObject) IN [k \in 1..Len(got) |-> got[k].data]

\* C39: once the decoded stream of a child process has ended, the child has
\* exited and the stream has yielded the lines of the child's whole output in
\* output order; for a child that exited with a code N other than zero it
\* has yielded exactly one error "streaming process failed: exit code N", as
\* its last item before the end; for a child that exited successfully every
\* error it yielded is that of a failed read, so none without one.  At any
\* time an error of a failed child is the last thing the stream yielded.
C39_ProcessStream ==
  /\ finished =>
       /\ child = "exited"
       /\ YieldedLines = LinesOf(command.output)
       /\ (~command.signal /\ command.code # 0) =>
            /\ SelectSeq(objects, IsExitError)
                 = <<[ok |-> FALSE, data |-> <<>>,
                      text |-> "streaming process failed: exit code",
                      args |-> <<command.code>>]>>
            /\ IsExitError(Last(objects))
            /\ Len(SelectSeq(objects, IsError)) = failures + 1
       /\ (~command.signal /\ command.code = 0) =>
            /\ SelectSeq(objects, IsExitError) = <<>>
            /\ Len(SelectSeq(objects, IsError)) = failures
  /\ \A i \in 1..Len(objects) : IsExitError(objects[i]) => i = Len(objects)
C39_Witness ==
  /\ finished
  /\ command.output = <<"a", "\n", "\n">>
  /\ ~command.signal /\ command.code = 2
  /\ failures = 0
  /\ Len(objects) = 3

====
